---- MODULE Spec2Model ----
(***************************************************************************)
(* Federation core of wildebeest: actor resolve-and-cache (getAndCache,    *)
(* getActorById, setMastodonId, fetchActor), Like processing               *)
(* (handleLikeActivity) and the local followers collection.                *)
(*                                                                         *)
(* Every await on storage or on the network is one step of a worker, so    *)
(* that concurrent requests interleave exactly at their suspension points. *)
(***************************************************************************)
EXTENDS Integers, Sequences, FiniteSets, TLC

\* ------------------------------------------------------------------ bounds

\* Requests served in one behaviour (over all workers).
MaxCalls == 2
\* Storage writes that may fail in one behaviour (StorageError).
MaxFaults == 1
\* Followers the local account has when the first page is requested.
NFollowers == 100
\* Followers that may be added while the collection is being paged.
MaxNewFollowers == 5

\* Concurrent units of work (one per inbound request being served).
Procs == {"w1", "w2"}

\* ------------------------------------------------------------- the world

\* mastodon_id IS NULL (a row written before sequential ids existed).
NullId == 0
\* A JavaScript null / undefined reference.
NULL == "null"

\* Canonical actor identifiers: A is a local account, R a remote relay that
\* is already cached, B a remote actor nobody has resolved yet and Z an
\* identifier no row exists for and nobody delivers from.

\* getApId(actor.id).host
Host(id) == "host_" \o id

\* The domain of the request's URL, and another server's.
LocalDomain == "social.example"
RemoteDomain == "remote.example"

\* The objects table as getObjectById sees it: the recorded original author
\* (originalActorIdSymbol, possibly missing) and the actor that delivered the
\* object. O2 is A's note as relayed by R, O3 has no recorded author, O4 is
\* by an author without an actor row; O5 is not stored at all.
ObjectRows ==
    [ O1 |-> [original |-> "A",  deliveredBy |-> "A"],
      O2 |-> [original |-> "A",  deliveredBy |-> "R"],
      O3 |-> [original |-> NULL, deliveredBy |-> "R"],
      O4 |-> [original |-> "Z",  deliveredBy |-> "R"] ]
StoredObjectIds == DOMAIN ObjectRows
ObjectIds == StoredObjectIds \cup {"O5"}

\* SELECT ... FROM objects WHERE id = ? : the row, or null.
getObjectById(oid) ==
    IF oid \in StoredObjectIds
      THEN [id |-> oid, original |-> ObjectRows[oid].original]
      ELSE [id |-> NULL, original |-> NULL]

\* What a remote server may answer to fetch(url): a non-success status, or a
\* JSON document whose type and id may each be missing.
RemoteResponses(url) ==
    { [ok |-> FALSE, type |-> NULL,     id |-> NULL],
      [ok |-> TRUE,  type |-> "Person", id |-> url],
      [ok |-> TRUE,  type |-> NULL,     id |-> url],
      [ok |-> TRUE,  type |-> "Person", id |-> NULL] }

\* The requests a worker may be given.
LikeActivities ==
    { [op |-> "like", actor |-> "B", object |-> o] : o \in ObjectIds }
    \cup { [op |-> "like", actor |-> "A", object |-> "O1"] }
ResolveCalls == { [op |-> "resolve", actor |-> a, object |-> NULL] :
                      a \in {"A", "B"} }

\* The email column of a local person's actors row; A is such a person.
EmailOf(name) == name \o "@" \o LocalDomain

\* getPersonByEmail(db, email), asked for A.
PersonByEmailCalls ==
    { [op |-> "getPersonByEmail", actor |-> EmailOf("a"), object |-> NULL] }

Calls == LikeActivities \cup ResolveCalls \cup PersonByEmailCalls
NoCall == [op |-> NULL, actor |-> NULL, object |-> NULL]

\* ------------------------------------------------------------------ state

VARIABLES
    actors,          \* table actors: rows [id, mastodon_id]
    peers,           \* table peers: hosts
    idSeq,           \* the sequence behind generateMastodonId
    likes,           \* table actor_favourites: <<actor, object>>
    notifications,   \* table actor_notifications: rows [id, type, to, from, object]
    inflight,        \* writes issued by Promise.all and not yet settled
    pc,              \* each worker's position
    call,            \* each worker's request
    local,           \* each worker's local variables
    result,          \* each worker's outcome: status, error, log, the tables it
                     \* wrote, the remote response it got, the value returned
    calls,           \* requests started so far
    faults,          \* storage failures so far
    following,       \* table actor_following of the local account, oldest first
    freq,            \* a client paging the followers collection
    apPage,          \* the last federation followers page served
    outbox,          \* table outbox_objects of the local account, oldest first
    sreq,            \* a client paging the local account's statuses
    rres,            \* the last answer to a request for a remote account's statuses
    fa,              \* a remote actor document on its way through fetchActor,
                     \* the actors table and actorFromRow
    preferences      \* table actor_preferences: actor ids

followVars == <<following, freq, apPage>>
statusVars == <<outbox, sreq, rres>>
fetchVars == <<fa>>
personVars == <<preferences>>

vars == <<actors, peers, idSeq, likes, notifications, inflight, pc, call, local,
          result, calls, faults, following, freq, apPage, outbox, sreq, rres, fa,
          preferences>>

NoActor == [id |-> NULL, mastodon_id |-> NullId]
NoDoc == [ok |-> FALSE, type |-> NULL, id |-> NULL]

InitLocal ==
    [ ctx |-> NULL, obj |-> NULL, row |-> NoActor, doc |-> NoDoc,
      mastodonId |-> NullId, fromActor |-> NoActor, targetActor |-> NoActor,
      notifId |-> NullId, settled |-> {} ]

InitResult ==
    [ status |-> NULL, error |-> NULL, log |-> NULL, wrote |-> {}, value |-> NoActor,
      push |-> NULL, fetched |-> FALSE, response |-> NoDoc ]

NoRequest ==
    [ stage |-> "start", id |-> NULL, hasLimit |-> FALSE, limit |-> 0, cursor |-> NULL,
      status1 |-> 0, page1 |-> <<>>, status2 |-> 0, page2 |-> <<>> ]

\* A response nobody has asked for yet.
NoResponse ==
    [ status |-> 0, body |-> <<>>, threw |-> FALSE, effects |-> {}, limit |-> 0,
      log |-> {} ]

NoQuery ==
    [ localPart |-> NULL, domain |-> NULL, pinned |-> FALSE, maxId |-> 0,
      limit |-> [kind |-> "absent", n |-> 0], offset |-> 0, link |-> FALSE,
      actor |-> NULL ]

NoStatusRequest ==
    [ stage |-> "start", q |-> NoQuery, known |-> 0, res1 |-> NoResponse ]

NoRemoteRequest ==
    [ stage |-> "start", q |-> NoQuery, res |-> NoResponse, ctx |-> NULL,
      mastodonId |-> NullId, items |-> <<>>, cbs |-> <<>> ]

\* No federation followers page served yet.
NoPage ==
    LET undefined == [href |-> "undefined", canonical |-> TRUE, object |-> FALSE] IN
    [ stage |-> "start", status |-> 0, handle |-> [localPart |-> NULL, domain |-> NULL],
      id |-> undefined, type |-> NULL, partOf |-> undefined, orderedItems |-> <<>>,
      threw |-> FALSE, row |-> NoActor, mastodonId |-> NullId ]

NoFetch ==
    LET absent == [defined |-> FALSE, len |-> 0, markup |-> 0]
        none == [ id |-> [href |-> "undefined", canonical |-> TRUE, object |-> FALSE],
                  summary |-> absent, name |-> absent, preferredUsername |-> absent,
                  endpoints |-> [ e \in {"inbox", "outbox", "following", "followers"} |->
                                    [href |-> "undefined", canonical |-> TRUE,
                                     object |-> FALSE] ],
                  alsoKnownAs |-> [defined |-> FALSE, items |-> <<>>] ] IN
    [ stage |-> "start", doc |-> none, actor |-> none, row |-> none, miss |-> none,
      hit |-> none, mastodonId |-> NullId, returned |-> FALSE ]

\* The statuses and fetch specifications' variables, at rest.
StatusesIdle == outbox = <<>> /\ sreq = NoStatusRequest /\ rres = NoRemoteRequest
FetchIdle == fa = NoFetch
PersonIdle == preferences = {}

Init ==
    /\ following = <<>>
    /\ freq = NoRequest
    /\ apPage = NoPage
    /\ StatusesIdle
    /\ FetchIdle
    /\ PersonIdle
    /\ actors = { [id |-> "A", mastodon_id |-> NullId],
                  [id |-> "R", mastodon_id |-> 1] }
    /\ peers = { Host("R") }
    /\ idSeq = 1
    /\ likes = {}
    /\ notifications = {}
    /\ inflight = {}
    /\ pc = [p \in Procs |-> "idle"]
    /\ call = [p \in Procs |-> NoCall]
    /\ local = [p \in Procs |-> InitLocal]
    /\ result = [p \in Procs |-> InitResult]
    /\ calls = 0
    /\ faults = 0

\* ---------------------------------------------------------------- helpers

\* actorFromRow: the Actor a row converts to (the fields this model follows).
actorFromRow(row) == [id |-> row.id, mastodon_id |-> row.mastodon_id]

\* SELECT * FROM actors WHERE id = ? : the rows found.
SelectActors(id) == { r \in actors : r.id = id }

\* A storage write succeeds, or fails with a StorageError while the budget of
\* failures lasts.
WriteOutcomes == IF faults < MaxFaults THEN {TRUE, FALSE} ELSE {TRUE}

\* The unique constraint on the canonical identifier: an INSERT of an
\* identifier that already has a row is rejected.
UniqueViolation(id) == SelectActors(id) # {}

\* addPeer(db, host): an idempotent upsert of the host.
addPeer(host) == peers \cup {host}

\* The next value of the actors sequence (generateMastodonId).
generateMastodonId == idSeq + 1

\* fetchActor: throws on a non-success status; new URL(actor.id) throws a
\* TypeError on a missing id; otherwise the document is returned.
fetchActor(res) ==
    IF ~res.ok THEN [threw |-> "returned status", doc |-> NoDoc]
    ELSE IF res.id = NULL THEN [threw |-> "invalid URL", doc |-> NoDoc]
    ELSE [threw |-> NULL, doc |-> res]

\* A validation that forgets the type: a document without one is cached.
MissingFields_IdOnly(doc) == doc.id = NULL

\* getAndCache's own validation of the fetched document.
MissingFields(doc) == doc.type = NULL \/ doc.id = NULL

\* An exception leaves the request: nothing catches it in these handlers.
Throw(p, res, error) ==
    [ pc |-> "done", local |-> InitLocal, issue |-> {},
      result |-> [res EXCEPT !.status = "threw", !.error = error] ]

\* createNotification(db, 'favourite', targetActor, fromActor, obj) and
\* insertLike(db, fromActor, obj), both started by Promise.all.
LikeWrites(p, loc) ==
    { [kind |-> "notification", owner |-> p, to |-> loc.targetActor.id,
       from |-> loc.fromActor.id, object |-> loc.obj],
      [kind |-> "like", owner |-> p, to |-> loc.targetActor.id,
       from |-> loc.fromActor.id, object |-> loc.obj] }

\* handleLikeActivity after targetActor was looked up.
AfterTargetActor(p, loc, res, actor) ==
    IF actor = NoActor
      THEN [ pc |-> "done", local |-> InitLocal, issue |-> {},
             result |-> [res EXCEPT !.status = "returned",
                                    !.log = "object actor not found"] ]
      ELSE LET l2 == [loc EXCEPT !.targetActor = actor] IN
           [ pc |-> "awaitAll", local |-> l2, issue |-> LikeWrites(p, l2),
             result |-> res ]

\* getAndCache returns `actor` to its caller: the resolve request ends, the
\* Like handler goes on to look up the object's original author.
AfterGetAndCache(p, loc, res, actor) ==
    IF call[p].op = "resolve"
      THEN [ pc |-> "done", local |-> InitLocal, issue |-> {},
             result |-> [res EXCEPT !.status = "returned", !.value = actor] ]
      ELSE [ pc |-> "getActor", issue |-> {}, result |-> res,
             local |-> [loc EXCEPT !.fromActor = actor, !.ctx = "target"] ]

\* getActorById returns `actor` (NoActor for null) to the caller named by ctx;
\* so does the lookup of getPersonByEmail, whose caller is the request itself.
AfterGetActorById(p, loc, res, actor) ==
    IF loc.ctx = "email"
      THEN [ pc |-> "done", local |-> InitLocal, issue |-> {},
             result |-> [res EXCEPT !.status = "returned", !.value = actor] ]
    ELSE IF loc.ctx = "from"
      THEN IF actor # NoActor
             THEN AfterGetAndCache(p, loc, res, actor)
             ELSE [pc |-> "fetch", local |-> loc, issue |-> {}, result |-> res]
      ELSE AfterTargetActor(p, loc, res, actor)

\* The notification target taken from the actor that delivered the object
\* instead of the recorded original author.
LookupId_DeliveringActor(p) ==
    IF local[p].ctx = "from" THEN call[p].actor
    ELSE ObjectRows[local[p].obj].deliveredBy

\* The identifier a getActorById call looks up: the Like's actor inside
\* getAndCache, obj[originalActorIdSymbol] for the notification target.
LookupId(p) ==
    IF local[p].ctx = "from" THEN call[p].actor
    ELSE ObjectRows[local[p].obj].original

\* One step of worker p ends with outcome `out`.
Step(p, out) ==
    /\ pc' = [pc EXCEPT ![p] = out.pc]
    /\ local' = [local EXCEPT ![p] = out.local]
    /\ result' = [result EXCEPT ![p] = out.result]
    /\ inflight' = inflight \cup out.issue

Wrote(res, table) == [res EXCEPT !.wrote = @ \cup {table}]

\* ---------------------------------------------------------------- actions

\* A request arrives and a free worker takes it.
Start(p) ==
    /\ pc[p] \in {"idle", "done"}
    /\ calls < MaxCalls
    /\ \A w \in inflight : w.owner # p
    /\ \E c \in Calls :
         /\ call' = [call EXCEPT ![p] = c]
         /\ pc' = [pc EXCEPT ![p] = IF c.op = "like" THEN "getObject"
                                    ELSE IF c.op = "getPersonByEmail"
                                      THEN "getPersonByEmail" ELSE "getActor"]
         /\ local' = [local EXCEPT
                        ![p] = [InitLocal EXCEPT
                                  !.ctx = IF c.op = "getPersonByEmail"
                                            THEN "email" ELSE "from"]]
    /\ result' = [result EXCEPT ![p] = InitResult]
    /\ calls' = calls + 1
    /\ UNCHANGED <<actors, peers, idSeq, likes, notifications, inflight, faults,
                   followVars, statusVars, fetchVars, personVars>>

\* handleLikeActivity: obj = await getObjectById(db, objectId); unknown object.
HLA_GetObject(p) ==
    /\ pc[p] = "getObject"
    /\ LET obj == getObjectById(call[p].object) IN
       IF obj.id = NULL \/ obj.original = NULL
         THEN Step(p, [ pc |-> "done", local |-> InitLocal, issue |-> {},
                        result |-> [result[p] EXCEPT !.status = "returned",
                                                     !.log = "unknown object"] ])
         ELSE Step(p, [ pc |-> "getActor", issue |-> {}, result |-> result[p],
                        local |-> [local[p] EXCEPT !.obj = obj.id, !.ctx = "from"] ])
    /\ UNCHANGED <<actors, peers, idSeq, likes, notifications, call, calls,
                   faults, followVars, statusVars, fetchVars, personVars>>

\* getActorById: the SELECT, and the return when no backfill is needed.
GetActorById_Select(p) ==
    /\ pc[p] = "getActor"
    /\ LET results == SelectActors(LookupId(p)) IN
       IF results = {}
         THEN Step(p, AfterGetActorById(p, local[p], result[p], NoActor))
         ELSE \E row \in results :
                IF row.mastodon_id # NullId
                  THEN Step(p, AfterGetActorById(p, local[p], result[p], actorFromRow(row)))
                  ELSE Step(p, [ pc |-> "setMastodonId", issue |-> {},
                                 result |-> result[p],
                                 local |-> [local[p] EXCEPT !.row = row] ])
    /\ UNCHANGED <<actors, peers, idSeq, likes, notifications, call, calls,
                   faults, followVars, statusVars, fetchVars, personVars>>

\* setMastodonId: mastodonId = await generateMastodonId(db, 'actors', cdate).
SetMastodonId_Generate(p) ==
    /\ pc[p] = "setMastodonId"
    /\ idSeq' = generateMastodonId
    /\ Step(p, [ pc |-> "updateMastodonId", issue |-> {},
                 result |-> Wrote(result[p], "id_sequences"),
                 local |-> [local[p] EXCEPT !.mastodonId = generateMastodonId] ])
    /\ UNCHANGED <<actors, peers, likes, notifications, call, calls, faults,
                   followVars, statusVars, fetchVars, personVars>>

\* setMastodonId: UPDATE actors SET mastodon_id = ? WHERE id = ?, then
\* getActorById returns the row it read with the new identifier.
SetMastodonId_Update(p) ==
    /\ pc[p] = "updateMastodonId"
    /\ \E success \in WriteOutcomes :
         IF success
           THEN /\ actors' = { IF r.id = local[p].row.id
                                 THEN [r EXCEPT !.mastodon_id = local[p].mastodonId]
                                 ELSE r : r \in actors }
                /\ faults' = faults
                /\ Step(p, AfterGetActorById(p, local[p], Wrote(result[p], "actors"),
                          actorFromRow([local[p].row EXCEPT
                                          !.mastodon_id = local[p].mastodonId])))
           ELSE /\ actors' = actors
                /\ faults' = faults + 1
                /\ Step(p, Throw(p, result[p], "SQL error"))
    /\ UNCHANGED <<peers, idSeq, likes, notifications, call, calls,
                   followVars, statusVars, fetchVars, personVars>>

\* getAndCache: actor = await fetchActor(url), then the missing-fields check.
GAC_Fetch(p) ==
    /\ pc[p] = "fetch"
    /\ \E res \in RemoteResponses(call[p].actor) :
         LET got == fetchActor(res)
             res2 == [result[p] EXCEPT !.fetched = TRUE, !.response = res] IN
         IF got.threw # NULL
           THEN Step(p, Throw(p, res2, got.threw))
           ELSE IF MissingFields(got.doc)
             THEN Step(p, Throw(p, res2, "missing fields on Actor"))
             ELSE Step(p, [ pc |-> "generateId", issue |-> {}, result |-> res2,
                            local |-> [local[p] EXCEPT !.doc = got.doc] ])
    /\ UNCHANGED <<actors, peers, idSeq, likes, notifications, call, calls,
                   faults, followVars, statusVars, fetchVars, personVars>>

\* getAndCache: mastodonId = await generateMastodonId(db, 'actors', now).
GAC_GenerateId(p) ==
    /\ pc[p] = "generateId"
    /\ idSeq' = generateMastodonId
    /\ Step(p, [ pc |-> "insertActor", issue |-> {},
                 result |-> Wrote(result[p], "id_sequences"),
                 local |-> [local[p] EXCEPT !.mastodonId = generateMastodonId] ])
    /\ UNCHANGED <<actors, peers, likes, notifications, call, calls, faults,
                   followVars, statusVars, fetchVars, personVars>>

\* getAndCache: INSERT INTO actors (...) VALUES (...) RETURNING type. The
\* statement has no ON CONFLICT clause: on an identifier that already has a
\* row the unique constraint rejects it; a storage failure rejects it too.
\* Either way first() rejects and the call throws, the sequence advanced and
\* no row stored.
GAC_Insert(p) ==
    /\ pc[p] = "insertActor"
    /\ \E success \in WriteOutcomes :
         IF UniqueViolation(local[p].doc.id)
           THEN /\ actors' = actors
                /\ faults' = faults
                /\ Step(p, Throw(p, result[p], "UNIQUE constraint failed"))
         ELSE IF ~success
           THEN /\ actors' = actors
                /\ faults' = faults + 1
                /\ Step(p, Throw(p, result[p], "SQL error"))
           ELSE /\ actors' = actors \cup
                      { [id |-> local[p].doc.id, mastodon_id |-> local[p].mastodonId] }
                /\ faults' = faults
                /\ Step(p, [ pc |-> "addPeer", issue |-> {}, local |-> local[p],
                             result |-> Wrote(result[p], "actors") ])
    /\ UNCHANGED <<peers, idSeq, likes, notifications, call, calls,
                   followVars, statusVars, fetchVars, personVars>>

\* getAndCache: await addPeer(db, host), then return actorFromRow of the
\* values just written.
GAC_AddPeer(p) ==
    /\ pc[p] = "addPeer"
    /\ \E success \in WriteOutcomes :
         IF success
           THEN /\ peers' = addPeer(Host(local[p].doc.id))
                /\ faults' = faults
                /\ Step(p, AfterGetAndCache(p, local[p], Wrote(result[p], "peers"),
                          actorFromRow([id |-> local[p].doc.id,
                                        mastodon_id |-> local[p].mastodonId])))
           ELSE /\ peers' = peers
                /\ faults' = faults + 1
                /\ Step(p, Throw(p, result[p], "SQL error"))
    /\ UNCHANGED <<actors, idSeq, likes, notifications, call, calls,
                   followVars, statusVars, fetchVars, personVars>>

\* Going on to sendLikeNotification as soon as one write is fulfilled.
AfterWrite_FirstSettled(p, kind, success, table, notifId) ==
    IF pc[p] # "awaitAll"
      THEN IF success
             THEN [ pc |-> pc[p], local |-> local[p], issue |-> {},
                    result |-> Wrote(result[p], table) ]
             ELSE [ pc |-> pc[p], local |-> local[p], issue |-> {},
                    result |-> result[p] ]
      ELSE IF ~success
             THEN Throw(p, result[p], "SQL error")
             ELSE [ pc |-> "send",
                    local |-> [local[p] EXCEPT !.settled = @ \cup {kind},
                                               !.notifId = IF kind = "notification"
                                                             THEN notifId ELSE @],
                    issue |-> {},
                    result |-> Wrote(result[p], table) ]

\* The owner of a settled write, when it is still awaiting Promise.all: the
\* first rejection rejects Promise.all and the handler throws; once both
\* writes are fulfilled the handler goes on to sendLikeNotification. A write
\* that settles after the handler threw changes storage only.
AfterWrite(p, kind, success, table, notifId) ==
    IF pc[p] # "awaitAll"
      THEN IF success
             THEN [ pc |-> pc[p], local |-> local[p], issue |-> {},
                    result |-> Wrote(result[p], table) ]
             ELSE [ pc |-> pc[p], local |-> local[p], issue |-> {},
                    result |-> result[p] ]
      ELSE IF ~success
             THEN Throw(p, result[p], "SQL error")
             ELSE LET l2 == [local[p] EXCEPT !.settled = @ \cup {kind},
                                             !.notifId = IF kind = "notification"
                                                           THEN notifId ELSE @] IN
                  [ pc |-> IF l2.settled = {"notification", "like"}
                             THEN "send" ELSE "awaitAll",
                    local |-> l2, issue |-> {},
                    result |-> Wrote(result[p], table) ]

\* createNotification: INSERT INTO actor_notifications (...) RETURNING id.
\* Every call adds a row with a fresh id.
CreateNotification(p) ==
    /\ \E w \in inflight :
         /\ w.owner = p
         /\ w.kind = "notification"
         /\ \E success \in WriteOutcomes :
              LET id == Cardinality(notifications) + 1 IN
              /\ notifications' =
                   IF success
                     THEN notifications \cup
                            { [id |-> id, type |-> "favourite", to |-> w.to,
                               from |-> w.from, object |-> w.object] }
                     ELSE notifications
              /\ faults' = IF success THEN faults ELSE faults + 1
              /\ LET out == AfterWrite(p, "notification", success,
                                       "actor_notifications", id) IN
                 /\ pc' = [pc EXCEPT ![p] = out.pc]
                 /\ local' = [local EXCEPT ![p] = out.local]
                 /\ result' = [result EXCEPT ![p] = out.result]
         /\ inflight' = inflight \ {w}
    /\ UNCHANGED <<actors, peers, idSeq, likes, call, calls,
                   followVars, statusVars, fetchVars, personVars>>

\* insertLike: the Like edge (actor, object); a no-op when the edge exists.
InsertLike(p) ==
    /\ \E w \in inflight :
         /\ w.owner = p
         /\ w.kind = "like"
         /\ \E success \in WriteOutcomes :
              /\ likes' = IF success THEN likes \cup { <<w.from, w.object>> } ELSE likes
              /\ faults' = IF success THEN faults ELSE faults + 1
              /\ LET out == AfterWrite(p, "like", success, "actor_favourites", NullId) IN
                 /\ pc' = [pc EXCEPT ![p] = out.pc]
                 /\ local' = [local EXCEPT ![p] = out.local]
                 /\ result' = [result EXCEPT ![p] = out.result]
         /\ inflight' = inflight \ {w}
    /\ UNCHANGED <<actors, peers, idSeq, notifications, call, calls,
                   followVars, statusVars, fetchVars, personVars>>

\* The push transport delivers the message or fails.
PushOutcomes == {"delivered", "failed"}

\* sendLikeNotification(...): how the promise it returns can settle. It is
\* fulfilled when the transport delivered. When the transport failed, the
\* promise is fulfilled if the function handles the error itself, and
\* rejected if it lets the error out.
sendLikeNotification(push) ==
    IF push = "delivered" THEN {"fulfilled"} ELSE {"fulfilled", "rejected"}

\* handleLikeActivity: await sendLikeNotification(...), the last statement,
\* outside any try: a rejection leaves the handler.
HLA_Send(p) ==
    /\ pc[p] = "send"
    /\ \E push \in PushOutcomes :
         \E settled \in sendLikeNotification(push) :
           IF settled = "fulfilled"
             THEN Step(p, [ pc |-> "done", local |-> InitLocal, issue |-> {},
                            result |-> [result[p] EXCEPT !.status = "returned",
                                                         !.push = push] ])
             ELSE Step(p, Throw(p, [result[p] EXCEPT !.push = push], "push failed"))
    /\ UNCHANGED <<actors, peers, idSeq, likes, notifications, call, calls,
                   faults, followVars, statusVars, fetchVars, personVars>>

\* ------------------------------------ fetchActor, getAndCache, actorFromRow
\* The fields of a remote actor document on their way from the fetch through
\* the actors table to the Actor returned.

\* The clamps of fetchActor.
MaxSummary == 500
MaxName == 30
MaxUsername == 30

\* A text field: its length, and how many of its characters are markup that
\* sanitising removes; or a field the document does not have (undefined or
\* null). An absent field and the empty text are both falsy, and only the
\* absent one is nullish.
Text(len, markup) == [ defined |-> TRUE, len |-> len, markup |-> markup ]
NoText == Text(0, 0)
Absent == [ defined |-> FALSE, len |-> 0, markup |-> 0 ]
Truthy(t) == t.defined /\ t.len > 0

\* sanitizeContent / getTextContent: the text without its unsafe markup.
sanitizeContent(t) == [t EXCEPT !.len = t.len - t.markup, !.markup = 0]
getTextContent(t) == [t EXCEPT !.len = t.len - t.markup, !.markup = 0]

\* if (s.length > max) s = s.substring(0, max)
Clamp_Off(t, max) == t
Clamp(t, max) == IF t.len > max THEN Text(max, t.markup) ELSE t

\* A URL: its text, whether that is the spelling new URL(...).toString()
\* gives, and whether the value is a URL object or a string. An endpoint the
\* document does not give is undefined.
Url(href, canonical) == [ href |-> href, canonical |-> canonical, object |-> FALSE ]
Undefined == Url("undefined", TRUE)
NewURL(u) == [u EXCEPT !.canonical = TRUE, !.object = TRUE]
UrlToString(u) == [u EXCEPT !.object = FALSE]

\* id + suffix: the URL's text followed by the suffix, a string.
Concat(u, suffix) == [u EXCEPT !.href = u.href \o suffix, !.object = FALSE]

Endpoints == {"inbox", "outbox", "following", "followers"}

\* alsoKnownAs: an array of identifiers, or undefined.
NoAliases == [ defined |-> FALSE, items |-> <<>> ]
Aliases(items) == [ defined |-> TRUE, items |-> items ]

\* fetchActor after res.json(): id becomes a URL; summary, name and
\* preferredUsername, when truthy, are sanitised and clamped; the endpoints
\* the document gives become URLs; the rest of the document is kept.
fetchActorFields(doc) ==
    [ id |-> NewURL(doc.id),
      summary |-> IF Truthy(doc.summary)
                    THEN Clamp(sanitizeContent(doc.summary), MaxSummary) ELSE doc.summary,
      name |-> IF Truthy(doc.name)
                 THEN Clamp(getTextContent(doc.name), MaxName) ELSE doc.name,
      preferredUsername |->
          IF Truthy(doc.preferredUsername)
            THEN Clamp(getTextContent(doc.preferredUsername), MaxUsername)
            ELSE doc.preferredUsername,
      endpoints |-> [ e \in Endpoints |->
                        IF doc.endpoints[e] # Undefined
                          THEN NewURL(doc.endpoints[e]) ELSE Undefined ],
      alsoKnownAs |-> doc.alsoKnownAs ]

\* JSON.stringify(properties), and JSON.parse of it: a URL becomes its text,
\* an undefined property is left out and is undefined again when read.
JsonRoundTrip(actor) ==
    [ id |-> UrlToString(actor.id), summary |-> actor.summary, name |-> actor.name,
      preferredUsername |-> actor.preferredUsername,
      endpoints |-> [ e \in Endpoints |-> UrlToString(actor.endpoints[e]) ],
      alsoKnownAs |-> actor.alsoKnownAs ]

\* actorFromRow: if (properties.inbox === undefined) properties.inbox =
\* id + '/inbox', and so for outbox, following, followers.
DefaultEndpoint_None(id, value, e) == value
DefaultEndpoint(id, value, e) ==
    IF value = Undefined THEN Concat(id, "/" \o e) ELSE value

\* actorFromRow(row), for the fields of properties: id is new URL(row.id);
\* name is properties.name ?? preferredUsername, so an empty name is kept.
actorFromRowProperties(rowId, properties) ==
    [ id |-> NewURL(rowId),
      summary |-> properties.summary,
      name |-> IF properties.name = Absent THEN properties.preferredUsername
               ELSE properties.name,
      preferredUsername |-> properties.preferredUsername,
      endpoints |-> [ e \in Endpoints |->
                        DefaultEndpoint(NewURL(rowId), properties.endpoints[e], e) ],
      alsoKnownAs |-> properties.alsoKnownAs ]

\* The remote documents fetched: texts around the clamps, with and without
\* markup, empty and absent; each endpoint given or not.
SummaryTexts ==
    { Absent, NoText, Text(MaxSummary, 0), Text(MaxSummary + 1, 0), Text(600, 0),
      Text(600, 150), Text(700, 150) }
NameTexts ==
    { Absent, NoText, Text(12, 12), Text(MaxName, 0), Text(MaxName + 1, 0), Text(40, 12) }
UsernameTexts ==
    { Absent, Text(MaxUsername - 1, 0), Text(MaxUsername, 0), Text(40, 0) }
EndpointValues(e) == { Undefined, Url("HTTPS://Remote.Example/custom/" \o e, FALSE) }
ActorIdUrls == { Url("https://remote.example/users/b", TRUE),
                 Url("HTTPS://Remote.Example/users/b", FALSE) }

ActorDocs ==
    { [ id |-> i, summary |-> s, name |-> n, preferredUsername |-> u, endpoints |-> ep,
        alsoKnownAs |-> NoAliases ] :
        i \in ActorIdUrls, s \in SummaryTexts, n \in NameTexts, u \in UsernameTexts,
        ep \in { f \in [Endpoints -> UNION { EndpointValues(e) : e \in Endpoints }] :
                   \A e \in Endpoints : f[e] \in EndpointValues(e) } }

\* updateActorProperty(db, actorId, key, value): json_set of one key of the
\* row's properties to a string.
ActorPropertyUpdates ==
    { [key |-> k, text |-> t, url |-> Undefined] :
        k \in {"name", "summary"}, t \in { Text(7, 0), Text(MaxName + 10, 0) } }
    \cup { [key |-> "inbox", text |-> Absent,
            url |-> Url("https://remote.example/moved/inbox", TRUE)] }

jsonSet(properties, update) ==
    IF update.key = "name" THEN [properties EXCEPT !.name = update.text]
    ELSE IF update.key = "summary" THEN [properties EXCEPT !.summary = update.text]
    ELSE [properties EXCEPT !.endpoints[update.key] = update.url]

\* setActorAlias(db, actorId, alias): alsoKnownAs becomes the array of the
\* one alias.
ActorAlias == "https://social.example/ap/users/b"
setAlias(properties, alias) == [properties EXCEPT !.alsoKnownAs = Aliases(<<alias>>)]

\* ------------------------------------------------- followers collection

\* z.number().int().min(1).max(80).default(40)
LimitMin == 1
LimitMax == 80
LimitDefault == 40

\* Response statuses: the default of a JSON response, and resourceNotFound.
StatusOk == 200
StatusNotFound == 404
StatusForbidden == 403

Min(a, b) == IF a < b THEN a ELSE b

\* The local account whose followers are listed (its mastodon id in the URL).
SubjectId == "subject"

\* readParams(request, schema): the schema knows one key, limit; any other
\* query parameter (a cursor, say) is dropped. A limit outside 1..80 fails the
\* parse.
ReadParams(q) ==
    IF ~q.hasLimit THEN [success |-> TRUE, limit |-> LimitDefault]
    ELSE IF q.limit < LimitMin \/ q.limit > LimitMax
      THEN [success |-> FALSE, limit |-> 0]
      ELSE [success |-> TRUE, limit |-> q.limit]

\* parseHandle(id): the local part and the domain, null when the id has none.
Handle(localPart, domain) == [ localPart |-> localPart, domain |-> domain ]

\* isLocalHandle(handle)
isLocalHandle(handle) == handle.domain = NULL

\* A string given where an object is expected.
JsString(s) == [ primitive |-> s ]

\* What actorURL leaves when it throws instead of returning a URL.
TypeError == Url("TypeError: Cannot use 'in' operator", FALSE)

\* actorURL(domain, obj): 'perferredUsername' in obj throws a TypeError on a
\* string; on an object the URL is new URL('/ap/users/' + name, 'https://' +
\* domain), name being obj.perferredUsername when the object has that key and
\* obj.localPart otherwise.
actorURL(domain, obj) ==
    IF "primitive" \in DOMAIN obj THEN TypeError
    ELSE IF "perferredUsername" \in DOMAIN obj
      THEN NewURL(Url("https://" \o domain \o "/ap/users/" \o obj.perferredUsername, TRUE))
      ELSE NewURL(Url("https://" \o domain \o "/ap/users/" \o obj.localPart, TRUE))

\* The id column of a local account's actors row.
LocalActorId(localPart) ==
    UrlToString(actorURL(LocalDomain, Handle(localPart, NULL))).href

\* The actor whose followers the table `following` holds.
SubjectActorId == LocalActorId("subject")

\* The id column of a follower's actors row.
FollowerId(i) == "https://remote.example/users/f" \o ToString(i)

\* getFollowerIds(db, actor, limit): the identifiers of the actor's
\* followers, most recently inserted first, at most limit of them. Only the
\* subject has followers.
getFollowerIds(actorId, limit) ==
    LET rows == IF actorId = SubjectActorId THEN following ELSE <<>> IN
    [ i \in 1..Min(limit, Len(rows)) |-> rows[Len(rows) - i + 1] ]

\* getFollowerIds(db, actor): without a limit, all of them.
getAllFollowerIds(actorId) == getFollowerIds(actorId, Len(following))

\* followers.ts get(), local account: the follower ids of the page, each
\* resolved with getAndCache (a cache hit: every follower has an actor row
\* with a sequential identifier) and loaded as an account. The response body
\* is the array of accounts (one per id, in order); it carries no cursor.
get(params) ==
    LET followerIds == getFollowerIds(SubjectActorId, params.limit) IN
    [ status |-> StatusOk,
      body |-> [ i \in 1..Len(followerIds) |->
                   actorFromRow(CHOOSE r \in actors : r.id = followerIds[i]).id ] ]

\* followers.ts onRequestGet and handleRequest: the parameters are read, the
\* account is looked up by its mastodon id, and get() answers.
FollowersRequest(q) ==
    LET parsed == ReadParams(q) IN
    IF ~parsed.success THEN [status |-> 0, body |-> <<>>, threw |-> TRUE]
    ELSE IF q.id # SubjectId
      THEN [status |-> StatusNotFound, body |-> <<>>, threw |-> FALSE]
      ELSE [status |-> get(parsed).status, body |-> get(parsed).body, threw |-> FALSE]

\* The limits a client may ask for: the values around the schema's bounds and
\* its default.
QueryLimits ==
    { LimitMin - 1, LimitMin, LimitMin + 1, LimitDefault - 1, LimitDefault,
      LimitDefault + 1, LimitMax - 1, LimitMax, LimitMax + 1 }

\* The first requests a client may send: a limit, or none, for the local
\* account; and a mastodon id no account has.
Queries ==
    { [id |-> SubjectId, hasLimit |-> TRUE, limit |-> l] : l \in QueryLimits }
    \cup { [id |-> i, hasLimit |-> FALSE, limit |-> 0] : i \in {SubjectId, "nobody"} }

coreFrame == <<peers, idSeq, likes, notifications, inflight, pc, call, local, result,
               calls, faults, statusVars, fetchVars, personVars>>

\* The client asks for the first page: a page size and no cursor.
FollowersFirstPage ==
    /\ freq.stage = "start"
    /\ \E q \in Queries :
         LET res == FollowersRequest(q) IN
         freq' = [freq EXCEPT !.stage = IF res.threw THEN "failed" ELSE "page1",
                              !.id = q.id, !.hasLimit = q.hasLimit, !.limit = q.limit,
                              !.status1 = res.status, !.page1 = res.body]
    /\ UNCHANGED <<actors, following, apPage, coreFrame>>

\* The client asks for the next page with the same page size, sending as
\* cursor the last item of the page it has (the response gave it no other).
FollowersSecondPage ==
    /\ freq.stage = "page1"
    /\ freq.status1 = StatusOk
    /\ freq.page1 # <<>>
    /\ LET cursor == freq.page1[Len(freq.page1)]
           res == FollowersRequest([id |-> freq.id, hasLimit |-> freq.hasLimit,
                                    limit |-> freq.limit, cursor |-> cursor]) IN
       freq' = [freq EXCEPT !.stage = "page2", !.cursor = cursor,
                            !.status2 = res.status, !.page2 = res.body]
    /\ UNCHANGED <<actors, following, apPage, coreFrame>>

\* A Follow of the subject is accepted: the follower, an actor cached with
\* the next sequential identifier, gets a row.
NewFollower ==
    /\ Len(following) < NFollowers + MaxNewFollowers
    /\ LET id == FollowerId(Len(following) + 1) IN
       /\ following' = Append(following, id)
       /\ actors' = actors \cup { [id |-> id, mastodon_id |-> generateMastodonId] }
       /\ idSeq' = generateMastodonId
    /\ UNCHANGED <<freq, apPage, peers, likes, notifications, inflight, pc, call,
                   local, result, calls, faults, statusVars, fetchVars, personVars>>

\* The properties column of the local accounts' actors rows: the followers
\* property, which older rows do not have.
LocalActorRows ==
    { [ id |-> LocalActorId("subject"), followers |-> Undefined ],
      [ id |-> LocalActorId("alice"),
        followers |-> Url("https://social.example/followers-of/alice", TRUE) ],
      [ id |-> LocalActorId("dave"), followers |-> Undefined ] }

\* actorFromRow of a local account's row: the id and the followers URL, which
\* is the row's property or, for a row without one, id + '/followers'.
LocalActorFromRow(row) ==
    LET properties == CHOOSE r \in LocalActorRows : r.id = row.id
        id == NewURL(Url(row.id, TRUE)) IN
    [ id |-> id, followers |-> DefaultEndpoint(id, properties.followers, "followers") ]

\* A response without document: a status that is not the default (200).
EmptyResponse(handle, status) ==
    [NoPage EXCEPT !.stage = "done", !.status = status, !.handle = handle]

\* The unknown actor looked for before the handle is checked.
FollowersPage_NotFoundFirst(domain, handle) ==
    LET rows == SelectActors(UrlToString(actorURL(domain, handle)).href) IN
    IF rows = {} THEN EmptyResponse(handle, StatusNotFound)
    ELSE EmptyResponse(handle, StatusForbidden)

\* ap/users/[id]/followers/page.ts handleRequest, up to the SELECT of
\* getActorById: 403 for a handle that is not local, before storage is read;
\* 404 when no row is found; with a row, the handler goes on to the follower
\* ids, through setMastodonId first when the row has no mastodon_id.
FollowersPage(domain, handle) ==
    IF ~isLocalHandle(handle) THEN EmptyResponse(handle, StatusForbidden)
    ELSE LET rows == SelectActors(UrlToString(actorURL(domain, handle)).href) IN
         IF rows = {} THEN EmptyResponse(handle, StatusNotFound)
         ELSE LET row == CHOOSE r \in rows : TRUE IN
              [NoPage EXCEPT !.handle = handle, !.row = row,
                             !.stage = IF row.mastodon_id = NullId
                                         THEN "setMastodonId" ELSE "getFollowerIds"]

\* The handles asked for: local accounts with an actor row, a local part
\* without one, and accounts of another server.
PageHandles ==
    { Handle("subject", NULL), Handle("alice", NULL), Handle("dave", NULL),
      Handle("ghost", NULL), Handle("subject", RemoteDomain),
      Handle("ghost", RemoteDomain) }

\* What the followers page handler leaves alone, whatever its step.
pageFrame == <<following, freq, peers, likes, notifications, inflight, pc, call,
               local, result, calls, statusVars, fetchVars, personVars>>

\* A server asks for the followers page of a handle: the handler runs up to
\* the result of getActorById's SELECT.
AP_FollowersPage ==
    /\ apPage.stage = "start"
    /\ \E handle \in PageHandles : apPage' = FollowersPage(LocalDomain, handle)
    /\ UNCHANGED <<actors, idSeq, faults, pageFrame>>

\* setMastodonId, first statement: generateMastodonId advances the sequence.
AP_GenerateId ==
    /\ apPage.stage = "setMastodonId"
    /\ idSeq' = generateMastodonId
    /\ apPage' = [apPage EXCEPT !.stage = "updateMastodonId",
                                !.mastodonId = generateMastodonId]
    /\ UNCHANGED <<actors, faults, pageFrame>>

\* setMastodonId, second statement: UPDATE actors SET mastodon_id = ? WHERE
\* id = ?, whatever the row holds by now; a failure throws out of the handler.
AP_UpdateMastodonId ==
    /\ apPage.stage = "updateMastodonId"
    /\ \E success \in WriteOutcomes :
         IF success
           THEN /\ actors' = { IF r.id = apPage.row.id
                                 THEN [r EXCEPT !.mastodon_id = apPage.mastodonId]
                                 ELSE r : r \in actors }
                /\ apPage' = [apPage EXCEPT !.stage = "getFollowerIds"]
                /\ UNCHANGED faults
           ELSE /\ faults' = faults + 1
                /\ apPage' = [apPage EXCEPT !.stage = "done", !.threw = TRUE]
                /\ UNCHANGED actors
    /\ UNCHANGED <<idSeq, pageFrame>>

\* getFollowerIds(db, actor) and the response: orderedItems are all the
\* follower ids of the actor; prev is a stub and no cursor is read.
AP_GetFollowerIds ==
    /\ apPage.stage = "getFollowerIds"
    /\ LET actor == LocalActorFromRow(apPage.row) IN
       apPage' = [apPage EXCEPT
                    !.stage = "done",
                    !.status = StatusOk,
                    !.id = NewURL(Concat(actor.followers, "/page")),
                    !.type = "OrderedCollectionPage",
                    !.partOf = actor.followers,
                    !.orderedItems = getAllFollowerIds(UrlToString(actor.id).href)]
    /\ UNCHANGED <<actors, idSeq, faults, pageFrame>>

\* The subject has NFollowers followers, each cached with a sequential
\* identifier; the subject has one too, alice and dave (older rows) have none.
InitFollowers ==
    /\ following = [ i \in 1..NFollowers |-> FollowerId(i) ]
    /\ actors = { [id |-> FollowerId(i), mastodon_id |-> i] : i \in 1..NFollowers }
                \cup { [id |-> LocalActorId("subject"), mastodon_id |-> NFollowers + 1],
                       [id |-> LocalActorId("alice"), mastodon_id |-> NullId],
                       [id |-> LocalActorId("dave"), mastodon_id |-> NullId] }
    /\ freq = NoRequest
    /\ apPage = NoPage
    /\ StatusesIdle
    /\ FetchIdle
    /\ PersonIdle
    /\ peers = {}
    /\ idSeq = NFollowers + 1
    /\ likes = {}
    /\ notifications = {}
    /\ inflight = {}
    /\ pc = [p \in Procs |-> "idle"]
    /\ call = [p \in Procs |-> NoCall]
    /\ local = [p \in Procs |-> InitLocal]
    /\ result = [p \in Procs |-> InitResult]
    /\ calls = 0
    /\ faults = 0

NextFollowers ==
    \/ FollowersFirstPage
    \/ NewFollower
    \/ FollowersSecondPage
    \/ AP_FollowersPage
    \/ AP_GenerateId
    \/ AP_UpdateMastodonId
    \/ AP_GetFollowerIds

SpecFollowers == InitFollowers /\ [][NextFollowers]_vars

\* --------------------------------------- api/v1/accounts/[id]/statuses.ts

\* Statuses the local account has published at the start, and how many it
\* publishes while a client pages.
NStatuses == 5
MaxNewStatuses == 2

\* The activities of a remote outbox page that are looked at.
MaxItems == 2

DEFAULT_LIMIT == 20

\* db.qb.epoch(): older than every row.
Epoch == 0

\* A max_id naming no outbox row.
MissingStatusId == 99
NoMaxId == 0

\* Number.parseInt of the limit parameter (absent: of '0'); a text that is no
\* number parses to NaN.
ParseInt(raw) == IF raw.kind = "int" THEN raw.n ELSE 0
IsNaN(raw) == raw.kind = "nan"
Abs(n) == IF n < 0 THEN -n ELSE n

\* Math.abs(Number.parseInt(limit ?? '0')) || DEFAULT_LIMIT: NaN and 0 are
\* falsy.
ParseLimit(raw) ==
    IF IsNaN(raw) \/ Abs(ParseInt(raw)) = 0 THEN DEFAULT_LIMIT ELSE Abs(ParseInt(raw))

\* The outbox rows with cdate > afterCdate, ORDER BY published_date DESC.
Newer(afterCdate) ==
    { i \in 1..Len(outbox) : outbox[i].cdate > afterCdate }

OrderByPublishedDesc(rows) ==
    [ k \in 1..Cardinality(rows) |->
        CHOOSE i \in rows :
          Cardinality({ j \in rows : outbox[j].published > outbox[i].published }) = k - 1 ]

\* LIMIT ?3 OFFSET ?4
LimitOffset(seq, limit, offset) ==
    [ k \in 1..(IF Len(seq) - offset < limit
                  THEN (IF Len(seq) > offset THEN Len(seq) - offset ELSE 0)
                  ELSE limit) |-> seq[offset + k] ]

\* QUERY bound with (actorId, afterCdate, limit, offset): every row of the
\* outbox is a public Note of the account that is no reply.
Query(afterCdate, limit, offset) ==
    LET rows == LimitOffset(OrderByPublishedDesc(Newer(afterCdate)), limit, offset) IN
    [ k \in 1..Len(rows) |-> outbox[rows[k]].id ]

\* SELECT cdate FROM outbox_objects WHERE object_id=?
CursorRows(maxId) == { i \in 1..Len(outbox) : outbox[i].id = maxId }

\* getLocalStatuses: actorId = actorURL(domain, handle.localPart), which is
\* given a string and throws; then the pinned stub; the max_id lookup
\* (statusNotFound when the row is missing, its cdate otherwise); the query.
getLocalStatuses(q, offset, limit) ==
    LET actorId == actorURL(LocalDomain, JsString(q.localPart)) IN
    IF actorId = TypeError
      THEN [NoResponse EXCEPT !.threw = TRUE, !.limit = limit]
    ELSE IF q.pinned
      THEN [NoResponse EXCEPT !.status = StatusOk, !.limit = limit]
    ELSE IF q.maxId # NoMaxId /\ CursorRows(q.maxId) = {}
      THEN [NoResponse EXCEPT !.status = StatusNotFound, !.limit = limit,
                              !.effects = {"select_cursor"}]
    ELSE LET afterCdate == IF q.maxId = NoMaxId THEN Epoch
                           ELSE outbox[CHOOSE i \in CursorRows(q.maxId) : TRUE].cdate IN
         [NoResponse EXCEPT !.status = StatusOk, !.limit = limit,
                            !.body = Query(afterCdate, limit, offset),
                            !.effects = (IF q.maxId = NoMaxId THEN {}
                                         ELSE {"select_cursor"})
                                        \cup {"select_statuses"}]

\* An activity of the remote outbox page, with what handling it will meet:
\* whether getAPId can read its actor and object, whether getObjectById
\* finds the object locally, how objects.get and objects.cacheObject end, and
\* whether the object is a Note.
Activity(type, ids, isLocal, fetch, cache, note) ==
    [ type |-> type, ids |-> ids, local |-> isLocal, fetch |-> fetch,
      cache |-> cache, note |-> note ]

CreateActivities ==
    { Activity("Create", "ok", FALSE, "none", c, TRUE) : c \in {"ok", "throws", "null"} }

AnnounceActivities ==
    { Activity("Announce", "ok", TRUE, "none", "none", n) : n \in BOOLEAN }
    \cup { Activity("Announce", "ok", FALSE, "throws", "none", TRUE) }
    \cup { Activity("Announce", "ok", FALSE, "ok", c, TRUE) : c \in {"throws", "null"} }
    \cup { Activity("Announce", "ok", FALSE, "ok", "ok", n) : n \in BOOLEAN }

OtherActivities == { Activity("Update", "ok", FALSE, "none", "none", TRUE) }

\* Activities whose actor or object holds no identifier (an activity
\* without object, for instance).
UnreadableActivities ==
    { Activity("Update", "unreadable", FALSE, "none", "none", TRUE),
      Activity("Create", "unreadable", FALSE, "none", "ok", TRUE) }

Activities ==
    CreateActivities \cup AnnounceActivities \cup OtherActivities
    \cup UnreadableActivities

\* objects.getAPId(activity.actor), objects.getAPId(activity.object): the
\* identifiers are returned, or the call throws on a value that holds none.
getAPId(a) == IF a.ids = "ok" THEN "id" ELSE "throws"

\* Where the callback of one activity is: at one of its awaits, or settled
\* (fulfilled with a status, null or undefined, or rejected); with the
\* effects and the log lines of the step that brought it there.
Pending == {"cacheObject", "getObjectById", "get", "toStatus"}
At(at, effects, log) == [ pc |-> at, effects |-> effects, log |-> log ]

\* The callback mapped over activities.items, up to its first await: the
\* identifiers are read before the type is looked at and outside any try;
\* an activity of another type is logged and the callback returns
\* undefined.
CallbackStart(a) ==
    IF getAPId(a) = "throws" THEN At("rejected", {}, {})
    ELSE IF a.type = "Create" THEN At("cacheObject", {}, {})
    ELSE IF a.type = "Announce" THEN At("getObjectById", {}, {})
    ELSE At("undefined", {}, {"unsupported activity type"})

\* if (!isNote(obj)) ... return null; return toMastodonStatusFromObject(...)
NoteCheck(a, effects) ==
    IF a.note THEN At("toStatus", effects, {})
    ELSE At("null", effects, {"object type is not Note"})

\* isCreateActivity branch, from one await to the next: cacheObject is
\* awaited outside any try; a null result fails at res.object.
CreateStep(a, at) ==
    IF at = "cacheObject"
      THEN (IF a.cache = "ok" THEN At("toStatus", {"write_objects"}, {})
            ELSE At("rejected", {}, {}))
      ELSE At("status", {}, {})

\* isAnnounceActivity branch, from one await to the next: a local object is
\* used as it is; another is downloaded and cached inside try/catch; an
\* object that is no Note is dropped.
AnnounceStep(a, at) ==
    LET failed == {"failed to retrieve object"} IN
    IF at = "getObjectById"
      THEN (IF a.local THEN NoteCheck(a, {}) ELSE At("get", {}, {}))
    ELSE IF at = "get"
      THEN (IF a.fetch = "throws" THEN At("null", {"fetch_object"}, failed)
            ELSE At("cacheObject", {"fetch_object"}, {}))
    ELSE IF at = "cacheObject"
      THEN (IF a.cache = "throws" THEN At("null", {}, failed)
            ELSE IF a.cache = "null" THEN At("null", {}, {})
            ELSE NoteCheck(a, {"write_objects"}))
    ELSE At("status", {}, {})

\* One awaited call of the callback of an activity returns.
CallbackStep(a, at) ==
    IF a.type = "Create" THEN CreateStep(a, at) ELSE AnnounceStep(a, at)

\* outbox.get(actor, limit): at most limit activities of the remote outbox.
OutboxGet(items, limit) == SubSeq(items, 1, Min(limit, Len(items)))

\* The actor the webfinger link of the remote handle names.
RemoteActorLink == "https://remote.example/users/alice"

\* What a step of getRemoteStatuses adds to the response in the making.
Did(res, effects) == [res EXCEPT !.effects = @ \cup effects]

\* An exception leaves getRemoteStatuses: the request is over.
Threw(req) == [req EXCEPT !.stage = "done", !.res.threw = TRUE]

\* getRemoteStatuses up to its first await: the pinned stub answers at once;
\* otherwise discovery comes next.
getRemoteStatuses(q, limit) ==
    IF q.pinned
      THEN [ stage |-> "done", res |-> [NoResponse EXCEPT !.status = StatusOk,
                                                          !.limit = limit] ]
      ELSE [ stage |-> "queryAcctLink", res |-> [NoResponse EXCEPT !.limit = limit] ]

\* handleRequest: offset and limit are parsed; a handle without domain, or
\* with the request's own, is local.
handleRequest(q) ==
    LET offset == q.offset
        limit == ParseLimit(q.limit) IN
    IF q.domain = NULL \/ q.domain = LocalDomain
      THEN [ stage |-> "done", res |-> getLocalStatuses(q, offset, limit) ]
      ELSE getRemoteStatuses(q, limit)

\* await Promise.all(promises), then filter(Boolean) and the response: the
\* first rejection leaves getRemoteStatuses at once, the other callbacks
\* still running; with every promise fulfilled the statuses are returned;
\* otherwise the request waits.
PromiseAll(req) ==
    LET n == Len(req.cbs)
        IsStatus(i) == req.cbs[i] = "status" IN
    IF \E i \in 1..n : req.cbs[i] = "rejected"
      THEN Threw(req)
    ELSE IF \E i \in 1..n : req.cbs[i] \in Pending
      THEN [req EXCEPT !.stage = "promiseAll"]
    ELSE [req EXCEPT !.stage = "done", !.res.status = StatusOk,
                     !.res.body = SelectSeq([ i \in 1..n |-> i ], IsStatus)]

\* What the steps of the callbacks did and logged, on the request's count.
Ran(req, ats) ==
    [req EXCEPT !.res.effects = @ \cup UNION { at.effects : at \in ats },
                !.res.log = @ \cup UNION { at.log : at \in ats }]

\* The limit parameter as the client writes it: none, a text that is no
\* number, or an integer.
Raw(kind, n) == [ kind |-> kind, n |-> n ]

RawLimits ==
    { Raw("absent", 0), Raw("nan", 0) }
    \cup { Raw("int", n) : n \in {-3, 0, 2, 3, LimitMax, LimitMax + 1} }

StatusQuery(localPart, domain, pinned, maxId, limit, offset, link, actor) ==
    [ localPart |-> localPart, domain |-> domain, pinned |-> pinned, maxId |-> maxId,
      limit |-> limit, offset |-> offset, link |-> link, actor |-> actor ]

\* Requests for the local account's statuses: with or without the pinned
\* flag; with no max_id, one naming a row, one naming none.
LocalQueries ==
    { StatusQuery("alice", d, p, m, l, o, FALSE, NULL) :
        d \in {NULL, LocalDomain}, p \in BOOLEAN,
        m \in {NoMaxId, NStatuses - 2, MissingStatusId},
        l \in RawLimits, o \in {0, 1} }

ItemSeqs == UNION { [1..n -> Activities] : n \in 0..MaxItems }

\* Requests for a remote account's statuses, with what discovery, fetchActor
\* (should the actor not be cached) and the remote outbox will answer.
RemoteQueries ==
    { StatusQuery("alice", RemoteDomain, p, NoMaxId, l, 0, k, a) :
        p \in BOOLEAN, l \in { Raw("absent", 0), Raw("int", 1), Raw("int", LimitMax + 1) },
        k \in BOOLEAN, a \in {"ok", "throws"} }

\* What no statuses request touches.
statusFrame == <<likes, notifications, inflight, pc, call, local, result, calls,
                 followVars, fetchVars, personVars>>

\* The tables a remote request writes.
remoteTables == <<actors, peers, idSeq, faults>>

\* A client asks for the local account's statuses.
LocalStatusesFirstPage ==
    /\ sreq.stage = "start"
    /\ rres.stage = "start"
    /\ \E q \in LocalQueries :
         sreq' = [sreq EXCEPT !.stage = "page1", !.q = q, !.known = Len(outbox),
                              !.res1 = handleRequest(q).res]
    /\ UNCHANGED <<outbox, rres, remoteTables, statusFrame>>

\* The local account publishes a status: a new outbox row, its cdate and
\* published_date later than every other's.
NewStatus ==
    /\ rres.stage = "start"
    /\ Len(outbox) < NStatuses + MaxNewStatuses
    /\ LET id == Len(outbox) + 1 IN
       outbox' = Append(outbox, [id |-> id, cdate |-> id, published |-> id])
    /\ UNCHANGED <<sreq, rres, remoteTables, statusFrame>>

\* A client asks for a remote account's statuses: handleRequest and
\* getRemoteStatuses up to the first await.
RemoteStatuses ==
    /\ sreq.stage = "start"
    /\ rres.stage = "start"
    /\ \E q \in RemoteQueries :
         LET out == handleRequest(q) IN
         rres' = [rres EXCEPT !.stage = out.stage, !.q = q, !.res = out.res]
    /\ UNCHANGED <<outbox, sreq, remoteTables, statusFrame>>

\* webfinger.queryAcctLink: without a link the answer is 404.
RS_QueryAcctLink ==
    /\ rres.stage = "queryAcctLink"
    /\ rres' = IF rres.q.link
                 THEN [rres EXCEPT !.stage = "getActorById",
                                   !.res = Did(@, {"webfinger"})]
                 ELSE [rres EXCEPT !.stage = "done",
                                   !.res = [Did(@, {"webfinger"}) EXCEPT
                                              !.status = StatusNotFound,
                                              !.log = {"link is null"}]]
    /\ UNCHANGED <<outbox, sreq, remoteTables, statusFrame>>

\* getAndCache -> getActorById, the SELECT: a row with a mastodon_id is a
\* cache hit; a row without one goes through setMastodonId; with no row the
\* actor is fetched.
RS_GetActorById ==
    /\ rres.stage = "getActorById"
    /\ LET rows == SelectActors(RemoteActorLink) IN
       rres' = [rres EXCEPT
                  !.res = Did(@, {"select_actors"}),
                  !.ctx = IF rows = {} THEN "insert" ELSE "backfill",
                  !.stage = IF rows = {} THEN "fetchActor"
                            ELSE IF \E r \in rows : r.mastodon_id = NullId
                              THEN "generateMastodonId"
                              ELSE "outbox"]
    /\ UNCHANGED <<outbox, sreq, remoteTables, statusFrame>>

\* getAndCache, cache miss: fetchActor returns the document or throws.
RS_FetchActor ==
    /\ rres.stage = "fetchActor"
    /\ rres' = IF rres.q.actor = "throws"
                 THEN Threw([rres EXCEPT !.res = Did(@, {"fetch_actor"})])
                 ELSE [rres EXCEPT !.stage = "generateMastodonId",
                                   !.res = Did(@, {"fetch_actor"})]
    /\ UNCHANGED <<outbox, sreq, remoteTables, statusFrame>>

\* generateMastodonId, in setMastodonId and before the INSERT: the sequence
\* advances.
RS_GenerateMastodonId ==
    /\ rres.stage = "generateMastodonId"
    /\ idSeq' = generateMastodonId
    /\ rres' = [rres EXCEPT
                  !.stage = IF rres.ctx = "backfill" THEN "updateMastodonId"
                            ELSE "insertActor",
                  !.mastodonId = generateMastodonId,
                  !.res = Did(@, {"write_id_sequences"})]
    /\ UNCHANGED <<outbox, sreq, actors, peers, faults, statusFrame>>

\* setMastodonId's UPDATE: the identifier is stored, or the statement fails
\* and the request throws.
RS_UpdateMastodonId ==
    /\ rres.stage = "updateMastodonId"
    /\ \E success \in WriteOutcomes :
         IF success
           THEN /\ actors' = { IF r.id = RemoteActorLink
                                 THEN [r EXCEPT !.mastodon_id = rres.mastodonId]
                                 ELSE r : r \in actors }
                /\ rres' = [rres EXCEPT !.stage = "outbox",
                                        !.res = Did(@, {"write_actors"})]
                /\ UNCHANGED faults
           ELSE /\ faults' = faults + 1
                /\ rres' = Threw(rres)
                /\ UNCHANGED actors
    /\ UNCHANGED <<outbox, sreq, peers, idSeq, statusFrame>>

\* getAndCache's INSERT INTO actors: the row is stored, or the statement is
\* rejected (the identifier has a row by now, or the storage fails) and the
\* request throws.
RS_InsertActor ==
    /\ rres.stage = "insertActor"
    /\ \E success \in WriteOutcomes :
         IF UniqueViolation(RemoteActorLink)
           THEN /\ rres' = Threw(rres)
                /\ UNCHANGED <<actors, faults>>
         ELSE IF success
           THEN /\ actors' = actors \cup { [id |-> RemoteActorLink,
                                             mastodon_id |-> rres.mastodonId] }
                /\ rres' = [rres EXCEPT !.stage = "addPeer",
                                        !.res = Did(@, {"write_actors"})]
                /\ UNCHANGED faults
           ELSE /\ faults' = faults + 1
                /\ rres' = Threw(rres)
                /\ UNCHANGED actors
    /\ UNCHANGED <<outbox, sreq, peers, idSeq, statusFrame>>

\* getAndCache's addPeer: the host is registered, or the statement fails and
\* the request throws, the actor row staying.
RS_AddPeer ==
    /\ rres.stage = "addPeer"
    /\ \E success \in WriteOutcomes :
         IF success
           THEN /\ peers' = addPeer(Host(RemoteActorLink))
                /\ rres' = [rres EXCEPT !.stage = "outbox",
                                        !.res = Did(@, {"write_peers"})]
                /\ UNCHANGED faults
           ELSE /\ faults' = faults + 1
                /\ rres' = Threw(rres)
                /\ UNCHANGED peers
    /\ UNCHANGED <<outbox, sreq, actors, idSeq, statusFrame>>

\* outbox.get(actor, limit): the page of activities is fetched, whatever the
\* remote outbox holds.
RS_OutboxGet ==
    /\ rres.stage = "outbox"
    /\ \E items \in ItemSeqs :
         rres' = [rres EXCEPT !.stage = "loadExternalMastodonAccount",
                              !.items = OutboxGet(items, rres.res.limit),
                              !.res = Did(@, {"fetch_outbox"})]
    /\ UNCHANGED <<outbox, sreq, remoteTables, statusFrame>>

\* loadExternalMastodonAccount returns; activities.items.map starts the
\* callback of every activity, each running up to its first await; then
\* await Promise.all(promises).
RS_LoadExternalMastodonAccount ==
    /\ rres.stage = "loadExternalMastodonAccount"
    /\ LET n == Len(rres.items)
           started == [ i \in 1..n |-> CallbackStart(rres.items[i]) ]
           mapped == [ Ran(rres, { started[i] : i \in 1..n })
                         EXCEPT !.cbs = [ i \in 1..n |-> started[i].pc ] ] IN
       rres' = PromiseAll(mapped)
    /\ UNCHANGED <<outbox, sreq, remoteTables, statusFrame>>

\* An awaited call of one activity's callback returns and the callback runs
\* to its next await or to its end; Promise.all settles with it when the
\* request is still waiting. A callback goes on after another's rejection
\* has ended the request.
RS_Callback ==
    /\ rres.stage \in {"promiseAll", "done"}
    /\ \E i \in 1..Len(rres.cbs) :
         /\ rres.cbs[i] \in Pending
         /\ LET at == CallbackStep(rres.items[i], rres.cbs[i])
                ran == [ Ran(rres, {at}) EXCEPT !.cbs[i] = at.pc ] IN
            rres' = IF rres.stage = "promiseAll" THEN PromiseAll(ran) ELSE ran
    /\ UNCHANGED <<outbox, sreq, remoteTables, statusFrame>>

\* The core's variables at rest.
CoreIdle ==
    /\ actors = {}
    /\ peers = {}
    /\ idSeq = 0
    /\ likes = {}
    /\ notifications = {}
    /\ inflight = {}
    /\ pc = [p \in Procs |-> "idle"]
    /\ call = [p \in Procs |-> NoCall]
    /\ local = [p \in Procs |-> InitLocal]
    /\ result = [p \in Procs |-> InitResult]
    /\ calls = 0
    /\ faults = 0

FollowersIdle == following = <<>> /\ freq = NoRequest /\ apPage = NoPage

\* The remote actor has no row yet, or a row with a mastodon_id and its host
\* among the peers, or an older row without mastodon_id.
InitStatuses ==
    /\ outbox = [ i \in 1..NStatuses |-> [id |-> i, cdate |-> i, published |-> i] ]
    /\ sreq = NoStatusRequest
    /\ rres = NoRemoteRequest
    /\ FetchIdle
    /\ PersonIdle
    /\ FollowersIdle
    /\ \E cached \in { {}, { [id |-> RemoteActorLink, mastodon_id |-> 1] },
                        { [id |-> RemoteActorLink, mastodon_id |-> NullId] } } :
         /\ actors = cached
         /\ peers = IF cached = {} THEN {} ELSE { Host(RemoteActorLink) }
    /\ idSeq = 1
    /\ likes = {}
    /\ notifications = {}
    /\ inflight = {}
    /\ pc = [p \in Procs |-> "idle"]
    /\ call = [p \in Procs |-> NoCall]
    /\ local = [p \in Procs |-> InitLocal]
    /\ result = [p \in Procs |-> InitResult]
    /\ calls = 0
    /\ faults = 0

NextStatuses ==
    \/ LocalStatusesFirstPage
    \/ NewStatus
    \/ RemoteStatuses
    \/ RS_QueryAcctLink
    \/ RS_GetActorById
    \/ RS_FetchActor
    \/ RS_GenerateMastodonId
    \/ RS_UpdateMastodonId
    \/ RS_InsertActor
    \/ RS_AddPeer
    \/ RS_OutboxGet
    \/ RS_LoadExternalMastodonAccount
    \/ RS_Callback

SpecStatuses == InitStatuses /\ [][NextStatuses]_vars

\* ------------------------------------------- a document through getAndCache

fetchFrame == <<likes, notifications, inflight, pc, call, local, result, calls,
                followVars, statusVars, personVars>>

\* The tables getAndCache writes.
fetchTables == <<actors, peers, idSeq, faults>>

\* The URL getAndCache is asked for, which is also the id column of the row
\* it stores: new URL(actor.id).toString() of either spelling of the
\* document's id.
FetchedActorLink == "https://remote.example/users/b"

\* getAndCache, cache miss: getActorById's SELECT finds no row.
FA_GetActorById ==
    /\ fa.stage = "start"
    /\ SelectActors(FetchedActorLink) = {}
    /\ fa' = [fa EXCEPT !.stage = "fetchActor"]
    /\ UNCHANGED <<fetchTables, fetchFrame>>

\* getAndCache, cache miss: fetchActor answers with the normalised document.
FA_Fetch ==
    /\ fa.stage = "fetchActor"
    /\ \E doc \in ActorDocs :
         fa' = [fa EXCEPT !.stage = "fetched", !.doc = doc, !.actor = fetchActorFields(doc)]
    /\ UNCHANGED <<fetchTables, fetchFrame>>

\* getAndCache, cache miss: generateMastodonId advances the sequence.
FA_GenerateMastodonId ==
    /\ fa.stage = "fetched"
    /\ idSeq' = generateMastodonId
    /\ fa' = [fa EXCEPT !.stage = "generated", !.mastodonId = generateMastodonId]
    /\ UNCHANGED <<actors, peers, faults, fetchFrame>>

\* getAndCache, cache miss: the row is inserted with JSON.stringify(properties),
\* properties being the object fetchActor returned; or the INSERT is rejected
\* and the call throws, with no row stored.
FA_Insert ==
    /\ fa.stage = "generated"
    /\ \E success \in WriteOutcomes :
         IF success
           THEN /\ actors' = actors \cup { [id |-> FetchedActorLink,
                                             mastodon_id |-> fa.mastodonId] }
                /\ fa' = [fa EXCEPT !.stage = "addPeer", !.row = JsonRoundTrip(fa.actor)]
                /\ UNCHANGED faults
           ELSE /\ faults' = faults + 1
                /\ fa' = [fa EXCEPT !.stage = "threw"]
                /\ UNCHANGED actors
    /\ UNCHANGED <<peers, idSeq, fetchFrame>>

\* getAndCache, cache miss: addPeer registers the host and the call returns
\* actorFromRow of the values it wrote; or addPeer fails and the call throws,
\* the row staying.
FA_AddPeer ==
    /\ fa.stage = "addPeer"
    /\ \E success \in WriteOutcomes :
         IF success
           THEN /\ peers' = addPeer(Host(FetchedActorLink))
                /\ fa' = [fa EXCEPT
                            !.stage = "inserted",
                            !.returned = TRUE,
                            !.miss = actorFromRowProperties(UrlToString(fa.actor.id),
                                                            fa.actor)]
                /\ UNCHANGED faults
           ELSE /\ faults' = faults + 1
                /\ fa' = [fa EXCEPT !.stage = "inserted"]
                /\ UNCHANGED peers
    /\ UNCHANGED <<actors, idSeq, fetchFrame>>

\* updateActorProperty on the stored row: the UPDATE rewrites one key of its
\* properties, or fails, and then the call throws.
FA_UpdateActorProperty ==
    /\ fa.stage = "inserted"
    /\ \E update \in ActorPropertyUpdates, success \in WriteOutcomes :
         /\ fa' = [fa EXCEPT !.stage = "updated",
                             !.row = IF success THEN jsonSet(fa.row, update) ELSE @]
         /\ faults' = IF success THEN faults ELSE faults + 1
    /\ UNCHANGED <<actors, peers, idSeq, fetchFrame>>

\* setActorAlias on the stored row: the UPDATE sets alsoKnownAs, or fails,
\* and then the call throws.
FA_SetActorAlias ==
    /\ fa.stage = "inserted"
    /\ \E success \in WriteOutcomes :
         /\ fa' = [fa EXCEPT !.stage = "updated",
                             !.row = IF success THEN setAlias(fa.row, ActorAlias) ELSE @]
         /\ faults' = IF success THEN faults ELSE faults + 1
    /\ UNCHANGED <<actors, peers, idSeq, fetchFrame>>

\* getAndCache, cache hit: getActorById finds the row, which has its
\* mastodon_id, and returns actorFromRow of it.
FA_Hit ==
    /\ fa.stage \in {"inserted", "updated"}
    /\ \E r \in SelectActors(FetchedActorLink) : r.mastodon_id # NullId
    /\ fa' = [fa EXCEPT !.stage = "hit", !.hit = actorFromRowProperties(fa.row.id, fa.row)]
    /\ UNCHANGED <<fetchTables, fetchFrame>>

InitFetch ==
    /\ fa = NoFetch
    /\ PersonIdle
    /\ StatusesIdle
    /\ FollowersIdle
    /\ CoreIdle

NextFetch ==
    \/ FA_GetActorById
    \/ FA_Fetch
    \/ FA_GenerateMastodonId
    \/ FA_Insert
    \/ FA_AddPeer
    \/ FA_UpdateActorProperty
    \/ FA_SetActorAlias
    \/ FA_Hit

SpecFetch == InitFetch /\ [][NextFetch]_vars

\* ------------------------------------------ createPerson, getPersonByEmail

\* The local users provisioned: their preferredUsername, which createPerson
\* takes from the email's local part.
PersonNames == {"alice", "bob"}

\* A local user provisioned before sequential identifiers existed: the actor
\* row has no mastodon_id.
OldPersonName == "carol"

\* id = actorURL(domain, { perferredUsername }).toString()
PersonId(name) == UrlToString(actorURL(LocalDomain, [perferredUsername |-> name])).href

CreatePersonCalls ==
    { [op |-> "createPerson", actor |-> PersonId(n), object |-> NULL] : n \in PersonNames }

\* getPersonByEmail(db, email): the emails asked for are the old user's, one
\* of a user createPerson may have provisioned, and one nobody has.
GetPersonByEmailCalls ==
    { [op |-> "getPersonByEmail", actor |-> EmailOf(n), object |-> NULL] :
        n \in {OldPersonName, "alice", "nobody"} }

\* SELECT * FROM actors WHERE email=? AND type=?
SelectActorsByEmail(email) ==
    { r \in actors :
        \/ r.id = "A" /\ email = EmailOf("a")
        \/ \E n \in PersonNames \cup {OldPersonName} :
             r.id = PersonId(n) /\ EmailOf(n) = email }

\* run() of a statement the caller does not check: fulfilled, fulfilled with
\* { success: false }, or rejected.
RunOutcomes == IF faults < MaxFaults THEN {"success", "failure", "rejected"}
               ELSE {"success"}

personFrame == <<peers, likes, notifications, inflight, followVars, statusVars,
                 fetchVars>>

\* createPerson is called: the key pair and the properties are prepared,
\* which touches no table.
CP_Start(p) ==
    /\ pc[p] \in {"idle", "done"}
    /\ calls < MaxCalls
    /\ \E c \in CreatePersonCalls : call' = [call EXCEPT ![p] = c]
    /\ pc' = [pc EXCEPT ![p] = "cpGenerateId"]
    /\ local' = [local EXCEPT ![p] = InitLocal]
    /\ result' = [result EXCEPT ![p] = InitResult]
    /\ calls' = calls + 1
    /\ UNCHANGED <<actors, idSeq, faults, preferences, personFrame>>

\* mastodonId = await generateMastodonId(db, 'actors', now)
CP_GenerateId(p) ==
    /\ pc[p] = "cpGenerateId"
    /\ idSeq' = generateMastodonId
    /\ pc' = [pc EXCEPT ![p] = "cpInsertActor"]
    /\ local' = [local EXCEPT ![p].mastodonId = generateMastodonId]
    /\ result' = [result EXCEPT ![p] = Wrote(@, "id_sequences")]
    /\ UNCHANGED <<actors, call, calls, faults, preferences, personFrame>>

\* INSERT INTO actors(...) VALUES(...) RETURNING *: rejected by the unique
\* constraint when the identifier has a row, or by a storage failure; the call
\* then throws.
CP_InsertActor(p) ==
    /\ pc[p] = "cpInsertActor"
    /\ \E success \in WriteOutcomes :
         IF UniqueViolation(call[p].actor) \/ ~success
           THEN /\ actors' = actors
                /\ faults' = IF UniqueViolation(call[p].actor) THEN faults ELSE faults + 1
                /\ pc' = [pc EXCEPT ![p] = "done"]
                /\ local' = [local EXCEPT ![p] = InitLocal]
                /\ result' = [result EXCEPT ![p].status = "threw",
                                            ![p].error = IF UniqueViolation(call[p].actor)
                                                           THEN "UNIQUE constraint failed"
                                                           ELSE "SQL error"]
           ELSE /\ actors' = actors \cup
                      { [id |-> call[p].actor, mastodon_id |-> local[p].mastodonId] }
                /\ faults' = faults
                /\ pc' = [pc EXCEPT ![p] = "cpInsertPreferences"]
                /\ local' = local
                /\ result' = [result EXCEPT ![p] = Wrote(@, "actors")]
    /\ UNCHANGED <<idSeq, call, calls, preferences, personFrame>>

\* await db.prepare('INSERT INTO actor_preferences(id) VALUES(?)').bind(id).run(),
\* then return actorFromRow(row). The two inserts are separate statements: a
\* failure of this one leaves the actor row. The result of run() is not
\* looked at: only a rejection throws, a reported failure is passed over and
\* the actor is returned.
CP_InsertPreferences(p) ==
    /\ pc[p] = "cpInsertPreferences"
    /\ \E outcome \in RunOutcomes :
         LET returned == [ result[p] EXCEPT
                             !.status = "returned",
                             !.value = actorFromRow([id |-> call[p].actor,
                                                     mastodon_id |-> local[p].mastodonId]) ] IN
         /\ preferences' = IF outcome = "success" THEN preferences \cup {call[p].actor}
                           ELSE preferences
         /\ faults' = IF outcome = "success" THEN faults ELSE faults + 1
         /\ result' = [result EXCEPT
                         ![p] = IF outcome = "success"
                                  THEN Wrote(returned, "actor_preferences")
                                ELSE IF outcome = "failure" THEN returned
                                ELSE [@ EXCEPT !.status = "threw", !.error = "SQL error"]]
    /\ pc' = [pc EXCEPT ![p] = "done"]
    /\ local' = [local EXCEPT ![p] = InitLocal]
    /\ UNCHANGED <<actors, idSeq, call, calls, personFrame>>

\* getPersonByEmail is called.
GPE_Start(p) ==
    /\ pc[p] \in {"idle", "done"}
    /\ calls < MaxCalls
    /\ \E c \in GetPersonByEmailCalls : call' = [call EXCEPT ![p] = c]
    /\ pc' = [pc EXCEPT ![p] = "getPersonByEmail"]
    /\ local' = [local EXCEPT ![p] = [InitLocal EXCEPT !.ctx = "email"]]
    /\ result' = [result EXCEPT ![p] = InitResult]
    /\ calls' = calls + 1
    /\ UNCHANGED <<actors, idSeq, faults, preferences, personFrame>>

\* getPersonByEmail: the SELECT; null when no row has the email; the row's
\* actor when it has a mastodon_id; setMastodonId (the steps of
\* SetMastodonId_Generate and SetMastodonId_Update) when it has none.
GPE_Select(p) ==
    /\ pc[p] = "getPersonByEmail"
    /\ LET results == SelectActorsByEmail(call[p].actor) IN
       IF results = {}
         THEN Step(p, AfterGetActorById(p, local[p], result[p], NoActor))
         ELSE \E row \in results :
                IF row.mastodon_id # NullId
                  THEN Step(p, AfterGetActorById(p, local[p], result[p], actorFromRow(row)))
                  ELSE Step(p, [ pc |-> "setMastodonId", issue |-> {},
                                 result |-> result[p],
                                 local |-> [local[p] EXCEPT !.row = row] ])
    /\ UNCHANGED <<actors, peers, idSeq, likes, notifications, call, calls,
                   faults, followVars, statusVars, fetchVars, personVars>>

\* The old user has an actor row without mastodon_id and a preferences row.
InitPerson ==
    /\ actors = { [id |-> PersonId(OldPersonName), mastodon_id |-> NullId] }
    /\ preferences = { PersonId(OldPersonName) }
    /\ peers = {}
    /\ idSeq = 0
    /\ likes = {}
    /\ notifications = {}
    /\ inflight = {}
    /\ pc = [p \in Procs |-> "idle"]
    /\ call = [p \in Procs |-> NoCall]
    /\ local = [p \in Procs |-> InitLocal]
    /\ result = [p \in Procs |-> InitResult]
    /\ calls = 0
    /\ faults = 0
    /\ FollowersIdle
    /\ StatusesIdle
    /\ FetchIdle

NextPerson ==
    \E p \in Procs :
        \/ CP_Start(p)
        \/ CP_GenerateId(p)
        \/ CP_InsertActor(p)
        \/ CP_InsertPreferences(p)
        \/ GPE_Start(p)
        \/ GPE_Select(p)
        \/ SetMastodonId_Generate(p)
        \/ SetMastodonId_Update(p)

SpecPerson == InitPerson /\ [][NextPerson]_vars

\* ------------------------------------------------- the federation core

\* The requests of the core: resolves, Likes and lookups by email, each
\* worker taking one step at a time.
Next ==
    \E p \in Procs :
        \/ Start(p)
        \/ HLA_GetObject(p)
        \/ GetActorById_Select(p)
        \/ GPE_Select(p)
        \/ SetMastodonId_Generate(p)
        \/ SetMastodonId_Update(p)
        \/ GAC_Fetch(p)
        \/ GAC_GenerateId(p)
        \/ GAC_Insert(p)
        \/ GAC_AddPeer(p)
        \/ CreateNotification(p)
        \/ InsertLike(p)
        \/ HLA_Send(p)

Spec == Init /\ [][Next]_vars

\* ----------------------------------------------------------------- claims

Finished(p) == pc[p] = "done" /\ \A w \in inflight : w.owner # p
IsLike(p) == call[p].op = "like"
BadResponse(res) == ~res.ok \/ res.type = NULL \/ res.id = NULL
LikeTables == {"actor_favourites", "actor_notifications"}
FavouritesFor(to, from, object) ==
    { n \in notifications : /\ n.type = "favourite" /\ n.to = to
                            /\ n.from = from /\ n.object = object }

\* C1: when every worker has finished a resolve (getAndCache) of the uncached
\* identifier B, each fetch having succeeded and no storage write having
\* failed, there is exactly one actor row for B, every call returned, and all
\* returned the same actor.
C1_ConcurrentResolveConverges ==
    ( /\ faults = 0
      /\ \A p \in Procs : /\ pc[p] = "done"
                          /\ call[p] = [op |-> "resolve", actor |-> "B", object |-> NULL]
                          /\ ~BadResponse(result[p].response) \/ ~result[p].fetched )
    => /\ Cardinality(SelectActors("B")) = 1
       /\ \A p \in Procs : result[p].status = "returned"
       /\ \A p, q \in Procs : result[p].value = result[q].value

\* C2: once a Like (actor, object) has been applied, however often it was
\* delivered, there is exactly one Like edge for (actor, object) and exactly
\* one favourite notification for (original author, actor, object).
C2_RedeliveryIdempotent ==
    \A p \in Procs :
        ( /\ Finished(p) /\ IsLike(p) /\ faults = 0
          /\ result[p].status = "returned" /\ result[p].log = NULL )
        => /\ <<call[p].actor, call[p].object>> \in likes
           /\ Cardinality(FavouritesFor(ObjectRows[call[p].object].original,
                                        call[p].actor, call[p].object)) = 1

\* The object of a Like cannot be resolved locally, or its original author
\* has no actor row.
Unresolvable(oid) ==
    \/ oid \notin StoredObjectIds
    \/ ObjectRows[oid].original = NULL
    \/ SelectActors(ObjectRows[oid].original) = {}

\* C3: a Like whose object is absent, has no recorded original author, or
\* whose original author is not a stored actor ends with a logged warning and
\* a normal return, and writes neither a Like edge nor a notification.
C3_UnknownObjectRejected ==
    \A p \in Procs :
        ( /\ Finished(p) /\ IsLike(p) /\ faults = 0
          /\ Unresolvable(call[p].object) )
        => /\ result[p].status = "returned"
           /\ result[p].log # NULL
           /\ result[p].wrote \cap LikeTables = {}

\* C4: every notification row handleLikeActivity adds is a favourite
\* addressed to the recorded original author of the liked object, with the
\* actor of the Like being processed as its origin; it goes to the actor that
\* delivered the object, or to the liking actor, only when that actor is the
\* original author.
C4_NotificationToOriginalAuthor ==
    [][ \A n \in notifications' \ notifications :
          /\ n.type = "favourite"
          /\ n.to = ObjectRows[n.object].original
          /\ \E p \in Procs : /\ IsLike(p)
                              /\ call[p].actor = n.from
                              /\ call[p].object = n.object
          /\ n.to = ObjectRows[n.object].deliveredBy
               => ObjectRows[n.object].deliveredBy = ObjectRows[n.object].original
          /\ n.to = n.from => n.from = ObjectRows[n.object].original ]_vars

\* A Like by B of O2, A's note that relay R delivered, has notified A.
C4_Witness ==
    \E n \in notifications : n.object = "O2" /\ n.from = "B" /\ n.to = "A"

\* C5: a resolve whose fetch got a non-success status, or a document without
\* type or without id, fails with an error and has written neither the
\* actors table nor the peers table (nor anything else).
C5_FailedFetchLeavesCache ==
    \A p \in Procs :
        (result[p].fetched /\ BadResponse(result[p].response))
        => /\ pc[p] = "done"
           /\ result[p].status = "threw"
           /\ result[p].wrote = {}

\* A resolve of B ended on a document without type, another request having
\* cached B in the meantime.
C5_Witness ==
    \E p \in Procs :
        /\ result[p].fetched
        /\ result[p].response.ok /\ result[p].response.type = NULL
        /\ result[p].status = "threw"
        /\ SelectActors("B") # {}

\* C6: while no storage write has failed, no notification row exists whose
\* Like edge is still absent: the edge is inserted before the notification.
C6_EdgeBeforeNotification ==
    faults = 0 => \A n \in notifications : <<n.from, n.object>> \in likes

\* C7: after a Like has been handled and its writes have settled, whether it
\* returned or threw, it has written the notification row if and only if it
\* has written the Like edge.
C7_EdgeIffNotification ==
    \A p \in Procs :
        (Finished(p) /\ IsLike(p))
        => ("actor_notifications" \in result[p].wrote
              <=> "actor_favourites" \in result[p].wrote)

\* C8: when the push transport fails after the notification row was written,
\* handleLikeActivity still returns normally and the notification row and
\* the Like edge are in storage.
C8_PushFailureSwallowed ==
    \A p \in Procs :
        result[p].push = "failed"
        => /\ result[p].status = "returned"
           /\ <<call[p].actor, call[p].object>> \in likes
           /\ FavouritesFor(ObjectRows[call[p].object].original,
                            call[p].actor, call[p].object) # {}

\* What handleLikeActivity itself does about a failed push: the notification
\* row and the Like edge stay in storage, and the call returns normally
\* or throws the push's error, as the promise of sendLikeNotification settled.
PushFailureKeepsRows ==
    \A p \in Procs :
        result[p].push = "failed"
        => /\ pc[p] = "done"
           /\ result[p].status = "returned" \/ result[p].error = "push failed"
           /\ <<call[p].actor, call[p].object>> \in likes
           /\ FavouritesFor(ObjectRows[call[p].object].original,
                            call[p].actor, call[p].object) # {}

\* C9: a Like whose delivering actor is not cached and whose remote
\* resolution fails is rejected: logged, no edge, no notification, and a
\* normal return to the caller.
C9_FailedActorResolutionRejected ==
    \A p \in Procs :
        ( /\ IsLike(p)
          /\ result[p].fetched /\ BadResponse(result[p].response) )
        => /\ result[p].status = "returned"
           /\ result[p].log # NULL
           /\ result[p].wrote \cap LikeTables = {}

\* The followers in the order the collection lists them: most recent first.
MostRecentFirst == getAllFollowerIds(SubjectActorId)
Range(seq) == { seq[i] : i \in DOMAIN seq }
PositionOf(x, seq) == CHOOSE i \in DOMAIN seq : seq[i] = x

\* C10: with 100 followers and page size 40, the second request, made with
\* the first one's cursor after 5 more followers were inserted, returns the 40
\* followers that follow the first page in the listing order: none of them was
\* in the first page and none is skipped.
C10_SecondPageContinues ==
    ( /\ freq.stage = "page2"
      /\ freq.hasLimit /\ freq.limit = LimitDefault
      /\ Len(following) = NFollowers + MaxNewFollowers )
    => LET last == PositionOf(freq.cursor, MostRecentFirst) IN
       /\ Range(freq.page1) \cap Range(freq.page2) = {}
       /\ freq.page2 = SubSeq(MostRecentFirst, last + 1,
                              Min(last + freq.limit, Len(MostRecentFirst)))

\* The local account's statuses in the listing order of the query (most
\* recently published first).
StatusListing == Query(Epoch, Len(outbox), 0)

\* A request for the local account's statuses, not pinned and without
\* offset, whose max_id names an outbox row.
CursorRequest ==
    /\ sreq.stage = "page1"
    /\ ~sreq.q.pinned /\ sreq.q.offset = 0
    /\ sreq.q.maxId # NoMaxId
    /\ CursorRows(sreq.q.maxId) # {}

\* C11: a request with a max_id naming an outbox row is answered with a page
\* of statuses that all lie on one side of that row in the listing order: the
\* page continues the listing right after the cursor, so that a client paging
\* with the last item it has sees no status twice and skips none, whatever
\* is published in between.
C11_CursorPagesPartition ==
    CursorRequest
    => LET page == sreq.res1.body
           last == PositionOf(sreq.q.maxId, StatusListing) IN
       /\ ~sreq.res1.threw
       /\ sreq.res1.status = StatusOk
       /\ \/ \A x \in Range(page) : PositionOf(x, StatusListing) < last
          \/ \A x \in Range(page) : PositionOf(x, StatusListing) > last
       /\ page = SubSeq(StatusListing, last + 1,
                        Min(last + sreq.res1.limit, Len(StatusListing)))

\* C12: no request for statuses passes a limit above 80 on to getLocalStatuses
\* or getRemoteStatuses, whatever page size the client asked for.
C12_LimitClamped ==
    /\ sreq.stage # "start" => sreq.res1.limit <= LimitMax
    /\ rres.stage # "start" => rres.res.limit <= LimitMax

\* A remote request that got the outbox page and is over (answered, or left
\* by an exception), and the activities of that page.
RemoteAnswered ==
    /\ rres.stage = "done"
    /\ "fetch_outbox" \in rres.res.effects
RemoteItems == rres.items

\* The object of an activity fails to fetch or to cache.
FailsToResolve(a) == a.fetch = "throws" \/ a.cache \in {"throws", "null"}

\* The object of a Create or Announce resolves to a Note.
ResolvesToNote(a) ==
    a.type \in {"Create", "Announce"} /\ ~FailsToResolve(a) /\ a.note

\* The actor and the object of every activity of the page can be read.
AllReadable == \A i \in 1..Len(RemoteItems) : getAPId(RemoteItems[i]) = "id"

\* C13: a request for a remote account's statuses whose outbox page was
\* fetched (every activity of it naming its actor and object) answers
\* successfully, whichever objects of its Create and Announce activities
\* failed to fetch or cache: those items are dropped and every item that
\* resolved is in the response.
C13_FailedItemsDropped ==
    (RemoteAnswered /\ AllReadable)
    => /\ ~rres.res.threw
       /\ rres.res.status = StatusOk
       /\ \A i \in 1..Len(RemoteItems) :
            /\ FailsToResolve(RemoteItems[i]) => i \notin Range(rres.res.body)
            /\ ResolvesToNote(RemoteItems[i]) => i \in Range(rres.res.body)

\* What the handler does for the failures it catches: with every activity
\* readable and no Create failing to cache, the request is answered with
\* exactly the items that resolved to a Note.
AnnounceFailuresDropped ==
    (/\ RemoteAnswered
     /\ AllReadable
     /\ \A i \in 1..Len(RemoteItems) :
          ~(RemoteItems[i].type = "Create" /\ FailsToResolve(RemoteItems[i])))
    => /\ ~rres.res.threw
       /\ rres.res.status = StatusOk
       /\ \A i \in 1..Len(RemoteItems) :
            i \in Range(rres.res.body) <=> ResolvesToNote(RemoteItems[i])

\* No getAndCache is under way: no worker is between a call's start and end.
NoResolveInProgress == \A p \in Procs : pc[p] \in {"idle", "done"}

\* The actor rows getAndCache inserted: all but those of the initial state.
InsertedByResolution == { row \in actors : row.id \notin {"A", "R"} }

\* A getAndCache of the identifier has returned an actor to a worker.
ResolvedAgain(id) ==
    \E p \in Procs : /\ pc[p] = "done"
                     /\ call[p] = [op |-> "resolve", actor |-> id, object |-> NULL]
                     /\ result[p].status = "returned"

\* C14: whenever no actor resolve is in progress, the origin host of every
\* actor row that remote resolution inserted is in the peers table; at the
\* latest once a resolve of that actor has returned, also when the addPeer of
\* the resolution that inserted the row had failed.
C14_InsertedActorsHavePeers ==
    NoResolveInProgress
    => \A row \in InsertedByResolution :
         ResolvedAgain(row.id) => Host(row.id) \in peers

\* The worker's getAndCache of A met the row with a null mastodon_id,
\* backfilled it, and returned.
Backfilled(p) ==
    /\ pc[p] = "done"
    /\ call[p] = [op |-> "resolve", actor |-> "A", object |-> NULL]
    /\ result[p].status = "returned"
    /\ "actors" \in result[p].wrote

\* C15: when every worker has read actor A while its mastodon_id was null,
\* and all have finished, they all returned the same identifier, and it is
\* the one the row holds.
C15_BackfillRaceSafe ==
    ( \A p \in Procs : Backfilled(p) )
    => /\ \A p, q \in Procs : result[p].value.mastodon_id = result[q].value.mastodon_id
       /\ \A p \in Procs : \A row \in SelectActors("A") :
            result[p].value.mastodon_id = row.mastodon_id

\* C16: after fetchActor has normalised a document, the summary has at most
\* 500 characters and the name and the preferredUsername at most 30; a
\* sanitised text within its bound is kept as it is, a longer one is cut to
\* exactly its bound: a summary of 600 characters becomes 500, a username of
\* 40 becomes 30.
ClampedTo(kept, sanitised, max) ==
    /\ kept.len <= max
    /\ sanitised.len <= max => kept = sanitised
    /\ sanitised.len > max => kept.len = max

C16_FieldsClamped ==
    fa.stage # "start"
    => /\ ClampedTo(fa.actor.summary, sanitizeContent(fa.doc.summary), 500)
       /\ ClampedTo(fa.actor.name, getTextContent(fa.doc.name), 30)
       /\ ClampedTo(fa.actor.preferredUsername,
                    getTextContent(fa.doc.preferredUsername), 30)
       /\ fa.doc.summary = Text(600, 0) => fa.actor.summary.len = 500
       /\ fa.doc.preferredUsername = Text(40, 0) => fa.actor.preferredUsername.len = 30

\* A document with a summary of 600 characters, a name of 31 and a username
\* of 40 has been normalised.
C16_Witness ==
    /\ fa.stage = "fetched"
    /\ fa.doc.summary = Text(600, 0)
    /\ fa.doc.name = Text(31, 0)
    /\ fa.doc.preferredUsername = Text(40, 0)

\* The text of a URL, whichever way it is held.
Href(u) == [ href |-> u.href, canonical |-> u.canonical ]

\* What the claim expects of an endpoint: the document's value as a URL when
\* it gives one, the canonical id followed by the endpoint's name otherwise.
ExpectedEndpoint(doc, e) ==
    IF doc.endpoints[e] # Undefined
      THEN Href(NewURL(doc.endpoints[e]))
      ELSE [ href |-> doc.id.href \o "/" \o e, canonical |-> TRUE ]

\* C17: the actor getAndCache returns, on the cache miss that inserted it and
\* on a later cache hit of the row as it was stored, has inbox, outbox,
\* following and followers defined: the remote document's value where it
\* gives one, the canonical id followed by '/inbox', '/outbox', '/following',
\* '/followers' where it does not.
C17_EndpointsDefaulted ==
    /\ fa.returned
       => \A e \in Endpoints :
            /\ fa.miss.endpoints[e] # Undefined
            /\ Href(fa.miss.endpoints[e]) = ExpectedEndpoint(fa.doc, e)
    /\ (fa.stage = "hit" /\ fa.row = JsonRoundTrip(fa.actor))
       => \A e \in Endpoints :
            /\ fa.hit.endpoints[e] # Undefined
            /\ Href(fa.hit.endpoints[e]) = ExpectedEndpoint(fa.doc, e)

\* A document giving an inbox but no followers collection was inserted and
\* then read from the cache.
C17_Witness ==
    /\ fa.stage = "hit"
    /\ fa.returned
    /\ fa.row = JsonRoundTrip(fa.actor)
    /\ fa.doc.endpoints["inbox"] # Undefined
    /\ fa.doc.endpoints["followers"] = Undefined

\* Remote fetches, discovery lookups and storage writes.
SideEffects ==
    { "webfinger", "fetch_actor", "fetch_outbox", "fetch_object",
      "write_id_sequences", "write_actors", "write_peers", "write_objects" }

\* A successful response with an empty list, made without side effects.
EmptyAndQuiet(res) ==
    /\ ~res.threw
    /\ res.status = StatusOk
    /\ res.body = <<>>
    /\ res.effects \cap SideEffects = {}

\* C18: a request with pinned=true is answered with an empty list, for a
\* local and for a remote account, without any remote fetch, discovery lookup
\* or storage write; for a local account also when its max_id names no row.
C18_PinnedEmpty ==
    /\ (sreq.stage # "start" /\ sreq.q.pinned) => EmptyAndQuiet(sreq.res1)
    /\ (rres.stage # "start" /\ rres.q.pinned) => EmptyAndQuiet(rres.res)

\* The followers URL of a local account with an actor row, as a text.
FollowersUrlOf(localPart) ==
    IF localPart = "alice" THEN "https://social.example/followers-of/alice"
    ELSE "https://social.example/ap/users/" \o localPart \o "/followers"

\* The stored follower identifiers of a local account, in the order storage
\* lists them (most recently inserted first): all followers are the subject's.
StoredFollowersOf(localPart) ==
    IF localPart = "subject"
      THEN [ i \in 1..Len(following) |-> following[Len(following) - i + 1] ]
      ELSE <<>>

\* C19: the federation followers page handler, when no storage statement of
\* the request fails, answers 403 for every handle that is not local and 404
\* for a local handle without stored actor; otherwise a document of type
\* OrderedCollectionPage whose partOf is the actor's followers URL, whose id
\* is that URL followed by '/page', and whose orderedItems are the stored
\* follower identifiers of that actor in storage order.
C19_FollowersPageDocument ==
    [][ (apPage.stage # "done" /\ apPage'.stage = "done" /\ faults' = faults)
        => LET handle == apPage'.handle IN
           /\ ~apPage'.threw
           /\ IF handle.domain # NULL THEN apPage'.status = StatusForbidden
              ELSE IF handle.localPart \notin {"subject", "alice", "dave"}
                THEN apPage'.status = StatusNotFound
              ELSE /\ apPage'.status = StatusOk
                   /\ apPage'.type = "OrderedCollectionPage"
                   /\ apPage'.partOf.href = FollowersUrlOf(handle.localPart)
                   /\ apPage'.id.href = FollowersUrlOf(handle.localPart) \o "/page"
                   /\ apPage'.orderedItems = StoredFollowersOf(handle.localPart) ]_vars

\* The page of a local account with followers was served.
C19_Witness ==
    /\ apPage.stage = "done"
    /\ apPage.status = StatusOk
    /\ apPage.handle = Handle("subject", NULL)
    /\ Len(apPage.orderedItems) = NFollowers

\* Where a Like is: before the object, its original author and the
\* delivering actor are all resolved (received), or rejected by one of the
\* handler's two early returns.
BeforeValidated(p) ==
    pc[p] \in { "getObject", "getActor", "setMastodonId", "updateMastodonId", "fetch",
                "generateId", "insertActor", "addPeer" }
Rejected(p) == result[p].log # NULL

\* The call has issued no edge or notification write and no push.
NothingApplied(p) ==
    /\ result[p].wrote \cap LikeTables = {}
    /\ \A w \in inflight : w.owner # p
    /\ result[p].push = NULL

\* C20: a Like goes received, validated, applied, notified, or received,
\* rejected: no edge or notification write is issued before the object, its
\* original author and the delivering actor are resolved; the push is issued
\* only after both the notification row and the edge are written; a rejected
\* Like is never applied or notified.
C20_LikeLifecycle ==
    \A p \in Procs :
        IsLike(p)
        => /\ BeforeValidated(p) => NothingApplied(p)
           /\ pc[p] = "awaitAll"
              => /\ local[p].obj # NULL
                 /\ local[p].fromActor # NoActor
                 /\ local[p].targetActor # NoActor
           /\ \A w \in inflight :
                w.owner = p => /\ w.object \in StoredObjectIds
                               /\ w.from # NULL
                               /\ w.to = ObjectRows[w.object].original
           /\ (pc[p] = "send" \/ result[p].push # NULL)
              => LikeTables \subseteq result[p].wrote
           /\ Rejected(p) => pc[p] = "done" /\ NothingApplied(p)

\* One Like has been applied and notified, another rejected.
C20_Witness ==
    \E p, q \in Procs :
        /\ IsLike(p) /\ pc[p] = "done" /\ result[p].push # NULL
        /\ LikeTables \subseteq result[p].wrote
        /\ IsLike(q) /\ pc[q] = "done" /\ Rejected(q)

\* The activities of the page whose type is neither Create nor Announce.
Unsupported(i) == RemoteItems[i].type \notin {"Create", "Announce"}

\* A Create whose object cannot be cached (the failure of C13).
CreateFails(a) == a.type = "Create" /\ FailsToResolve(a)

\* The promise of the activity's callback rejects.
Rejects(a) == getAPId(a) = "throws" \/ CreateFails(a)

\* No object was downloaded or cached.
NoObjectCached(res) == res.effects \cap {"fetch_object", "write_objects"} = {}

\* C21: an activity of the fetched outbox page that is neither a Create nor
\* an Announce is logged and gives no item of the response; it does not fail
\* the request (which fails only when another activity's promise rejects) and
\* has no object cached (a page of such activities caches none).
C21_UnsupportedIgnored ==
    RemoteAnswered
    => \A i \in 1..Len(RemoteItems) :
         Unsupported(i)
         => /\ "unsupported activity type" \in rres.res.log
            /\ i \notin Range(rres.res.body)
            /\ (\A j \in 1..Len(RemoteItems) : j # i => ~Rejects(RemoteItems[j]))
               => ~rres.res.threw /\ rres.res.status = StatusOk
            /\ (\A j \in 1..Len(RemoteItems) : Unsupported(j))
               => NoObjectCached(rres.res)

\* What the handler does for an activity of another type whose actor and
\* object it can read: the activity is logged and gives no item, no object
\* is cached for a page of such activities, and the request is answered
\* unless another activity's promise rejects.
ReadableUnsupportedIgnored ==
    RemoteAnswered
    => \A i \in 1..Len(RemoteItems) :
         (Unsupported(i) /\ getAPId(RemoteItems[i]) = "id")
         => /\ "unsupported activity type" \in rres.res.log
            /\ i \notin Range(rres.res.body)
            /\ (\A j \in 1..Len(RemoteItems) : ~Rejects(RemoteItems[j]))
               => ~rres.res.threw /\ rres.res.status = StatusOk
            /\ (\A j \in 1..Len(RemoteItems) : Unsupported(j) /\ ~Rejects(RemoteItems[j]))
               => NoObjectCached(rres.res)

\* The worker runs a resolve (getAndCache) of an identifier stored with a
\* sequential identifier, and is at its getActorById.
AtCacheHit(p) ==
    /\ call[p].op = "resolve"
    /\ pc[p] = "getActor"
    /\ SelectActors(call[p].actor) # {}
    /\ \A row \in SelectActors(call[p].actor) : row.mastodon_id # NullId

\* The cache hit of getAndCache: the step returns the stored actor without
\* fetch and without touching the actors or peers tables or the sequence.
CacheHitFrame ==
    [][ \A p \in Procs :
          (AtCacheHit(p) /\ pc'[p] # pc[p])
          => /\ pc'[p] = "done"
             /\ result'[p].status = "returned"
             /\ result'[p].value \in { actorFromRow(row) : row \in SelectActors(call[p].actor) }
             /\ ~result'[p].fetched
             /\ result'[p].wrote = {}
             /\ actors' = actors /\ peers' = peers /\ idSeq' = idSeq ]_vars

\* A resolve of the identifier has returned the actor v to the worker.
Resolved(p) ==
    /\ pc[p] = "done"
    /\ call[p].op = "resolve"
    /\ result[p].status = "returned"

\* C22: a resolve of an identifier stored with a sequential identifier
\* returns the stored actor without fetch or write; so once a resolve of X has
\* returned, the stored actor of X, which is what every later resolve of X
\* returns, is equal to that first result.
C22_LaterResolveEqualsFirst ==
    \A p \in Procs :
        Resolved(p)
        => /\ SelectActors(call[p].actor) # {}
           /\ \A row \in SelectActors(call[p].actor) : actorFromRow(row) = result[p].value

\* C23: no step of getAndCache, getActorById or a setMastodonId backfill
\* replaces the non-null mastodon_id of an actor row with another value.
C23_MastodonIdStable ==
    [][ \A row \in actors :
          row.mastodon_id # NullId
          => \A next \in actors' :
               next.id = row.id => next.mastodon_id = row.mastodon_id ]_vars

\* No createPerson call is in progress.
NoCreateInProgress == \A p \in Procs : pc[p] \in {"idle", "done"}

\* C24: whenever no createPerson call is in progress, every local actor row
\* createPerson inserted has its actor_preferences row, also when the second
\* insert failed after the actor row was written.
C24_PersonAllOrNothing ==
    NoCreateInProgress
    => \A row \in actors : row.id \in preferences

\* The first request of the client was for the local account's statuses, not
\* pinned, with a max_id naming no outbox row.
UnknownCursorRequest ==
    /\ sreq.stage # "start"
    /\ ~sreq.q.pinned
    /\ sreq.q.maxId # NoMaxId
    /\ \A i \in 1..sreq.known : outbox[i].id # sreq.q.maxId

\* C25: a request for a local account's statuses that is not pinned and whose
\* max_id names no outbox row is answered with the status-not-found error: the
\* listing query is not run and no status is returned.
C25_UnknownCursorNotFound ==
    UnknownCursorRequest
    => /\ sreq.res1.status = StatusNotFound
       /\ ~sreq.res1.threw
       /\ "select_statuses" \notin sreq.res1.effects
       /\ sreq.res1.body = <<>>

====
